---- MODULE Spec2Model ----
(***************************************************************************)
(* Verification model of datalad-core.                                     *)
(*                                                                         *)
(* The library is a set of independent components.  Each component has its *)
(* own variables, its own initial condition and its own next-state         *)
(* relation; a specification of one component keeps the variables of the   *)
(* others at their idle values.                                            *)
(*                                                                         *)
(*   SpecEnv      GitEnvironment.overrides / ConfigManager.overrides       *)
(*   SpecHandler  StandardResultHandler.__call__                           *)
(*   SpecDiff     _iter_gitdiff (raw diff record parsing)                  *)
(*   SpecFly      PathBasedFlyweight.__call__ with Repo and Worktree       *)
(*   SpecMgr      ConfigManager.get_from_protected_sources                 *)
(*   SpecGitCfg   GitConfig._set_item / GitConfig._add                     *)
(*   SpecProc     JointParamProcessor.__call__                             *)
(*   SpecDs       Dataset and EnsureDatasetPath                            *)
(*   SpecBool     anything2bool                                            *)
(*   SpecAlg      Constraint.__and__ / __or__, AllOf, AnyOf                *)
(*   SpecSubm     iter_gitdiff (recursion into submodules)                 *)
(*   SpecGitStatus  iter_gitstatus (submodule records)                     *)
(*   SpecWt       _iter_gitworktree                                        *)
(*   SpecOneline  call_git_oneline                                         *)
(*   SpecLoad     GitConfig._load                                          *)
(*   SpecBind     datalad_command: get_allargs_as_kwargs                   *)
(*   SpecAnnex    call_annex_json_lines                                    *)
(***************************************************************************)
EXTENDS Integers, Sequences, FiniteSets, TLC

VARIABLES
    \* ---- GitEnvironment.overrides
    env,            \* the GIT_CONFIG_KEY/VALUE items of the process environment
    envBefore,      \* env when overrides() was entered (history)
    overrides,      \* the mapping passed to overrides(), in iteration order
    restore,        \* the local `restore` dict, in insertion order
    envpc,          \* "idle" | "body" | "exited" | "failed"
    bodyRaised,     \* whether the with-body raised
    \* ---- StandardResultHandler.__call__
    produced,       \* the results the producer will yield, in order
    on_failure,     \* "continue" | "stop" | "ignore"
    pos,            \* number of results pulled from the producer so far
    yielded,        \* positions (in produced) of the results yielded so far
    logged,         \* positions passed to log_result
    rendered,       \* positions passed to render_result
    error_results,  \* positions collected in error_results
    hpc,            \* "loop" | "returned" | "raised"
    \* ---- _iter_gitdiff
    records,        \* the status letters of the records Git reports, in order
    lines,          \* the zero-byte separated items of Git's raw output
    dpos,           \* number of items consumed (the end marker included)
    skip_first,     \* the local skip_first
    pending_props,  \* the local pending_props (<<>> stands for None)
    items,          \* the diff items yielded so far
    \* ---- PathBasedFlyweight with Repo and Worktree
    gitAt,          \* the directories at which a Git repository is rooted
    fsChanged,      \* whether a repository was created or removed (history)
    lock,           \* PathBasedFlyweight._lock: its holder, or NoThread
    unique_instances, \* cls._unique_instances: class -> path -> instance
    instances,      \* the instances constructed so far: class and _path
    tpc,            \* per thread: position in PathBasedFlyweight.__call__
    treq,           \* per thread: the class called and the path given
    tinst,          \* per thread: the local `instance`, later the reference
    tprev,          \* per thread: what the cache lookup returned (history)
    tvalid,         \* per thread: what flyweight_valid() returned (history)
    waited,         \* per thread: the call began while the lock was held
    \* ---- ConfigManager.get_from_protected_sources
    cfg,            \* per source: the item it holds for the queried key
    protected_source_keys,  \* ConfigManager._protected_source_keys
    qdefault,       \* the `default` argument of the last query
    qresult,        \* the item the last query returned, NoItem before it
    \* ---- GitConfig (a Git-config-backed source)
    backing,        \* per normalized key: the values in the Git config file
    cache,          \* per normalized key: the items of the in-memory cache
    written,        \* <<key, text>> pairs git config has stored so far
    gop,            \* the set/add call in progress (kind, key, value)
    gstep,          \* position in the steps of the call in progress
    gpc,            \* "idle", "run" (inside _set_item/_add) or "raised"
    cacheAtCall,    \* the cache as it was when the last call began
    \* ---- JointParamProcessor.__call__
    proc_on_error,  \* self._on_error
    p1_constraint,  \* kind of the constraint of p1: "plain" | "tailorable"
    dataset_constraint, \* of dataset: "NoConstraint" | "EnsureDataset"
    at_default,     \* the at_default argument
    paramset_constraints, \* param_names of each cross-parameter constraint
    ppc,            \* position: "params", "paramsets", or how the call ended
    to_process,     \* parameters the first loop has yet to visit
    processed,      \* per name: the processed value, NoEntry if none
    exceptions,     \* the exceptions dict: context and origin of each entry
    failed_to_process, \* the local set of that name
    used,           \* per parameter: the validator that was called (history)
    attempted,      \* parameters handed to _proc_param (history)
    raisedFor,      \* parameters whose constraint raised (history)
    invoked,        \* the paramset constraints called, with what they returned
    \* ---- Dataset and EnsureDatasetPath
    ds_fs,          \* roots of the checkouts and bare repositories that exist
    ds_spec,        \* the spec the Dataset was made from
    ds,             \* the Dataset fields _repo, _worktree, _path
    got,            \* what the properties returned when read (history)
    is_format,      \* is_format of the EnsurePath that is tailored
    tc,             \* the call of the tailored constraint: value and result
    \* ---- anything2bool
    b2calls,        \* the calls made: the value passed and the outcome
    \* ---- constraints combined with & and |
    built,          \* the constraints built: operands, connective and result
    \* ---- iter_gitdiff over a hierarchy of submodules
    changed,        \* the paths that differ between the compared states
    pathspecs,      \* the pathspecs of the calls
    diffcalls,      \* the calls made: mode and the list of yielded items
    \* ---- iter_gitstatus on a repository with a submodule
    submodule,      \* what Git and the file system say about the submodule
    statuscalls,    \* the calls made: arguments and the list of yielded items
    \* ---- _iter_gitworktree
    wt_listing,     \* the records of git ls-files, by index of their path
    wt_recursion,   \* the recursion mode
    wt_pos,         \* the number of loop iterations done
    wt_pending,     \* pending_item
    wt_reported,    \* reported_dirs
    wt_yielded,     \* the items yielded so far
    wt_returned,    \* the generator returned at line 253
    \* ---- call_git_oneline
    ol_stdout,      \* what the Git process writes to stdout
    ol_returncode,  \* the exit status of the Git process
    ol_result,      \* the outcome of the call
    \* ---- GitConfig._load
    ld_dump,        \* the chunks git config writes before it exits
    ld_failure,     \* how the git config process ends
    ld_result,      \* the outcome of the load
    \* ---- datalad_command: get_allargs_as_kwargs
    bd_sig,         \* the parameters of the command body
    bd_nargs,       \* the number of positional arguments of the call
    bd_kwargs,      \* the names given by keyword in the call
    bd_result,      \* the outcome of the binding
    \* ---- call_annex_json_lines
    ax_given,       \* the content of the git_args list before the first call
    ax_git_args,    \* the content of the caller's git_args list
    ax_annex_args,  \* the annex_args of the calls
    ax_commands     \* the commands run so far

envVars == <<env, envBefore, overrides, restore, envpc, bodyRaised>>
hVars == <<produced, on_failure, pos, yielded, logged, rendered,
           error_results, hpc>>
dVars == <<records, lines, dpos, skip_first, pending_props, items>>
fVars == <<gitAt, fsChanged, lock, unique_instances, instances, tpc, treq,
           tinst, tprev, tvalid, waited>>
mVars == <<cfg, protected_source_keys, qdefault, qresult>>
gVars == <<backing, cache, written, gop, gstep, gpc, cacheAtCall>>
pVars ==
    <<proc_on_error, p1_constraint, dataset_constraint, at_default,
      paramset_constraints, ppc, to_process, processed, exceptions, failed_to_process,
      used, attempted, raisedFor, invoked>>
dsVars == <<ds_fs, ds_spec, ds, got, is_format, tc>>
bVars == <<b2calls>>
aVars == <<built>>
sVars == <<changed, pathspecs, diffcalls>>
stVars == <<submodule, statuscalls>>
wtVars ==
    <<wt_listing, wt_recursion, wt_pos, wt_pending, wt_reported,
      wt_yielded, wt_returned>>
olVars == <<ol_stdout, ol_returncode, ol_result>>
ldVars == <<ld_dump, ld_failure, ld_result>>
bdVars == <<bd_sig, bd_nargs, bd_kwargs, bd_result>>
axVars == <<ax_given, ax_git_args, ax_annex_args, ax_commands>>
vars ==
    <<envVars, hVars, dVars, fVars, mVars, gVars,
      pVars, dsVars, bVars, aVars, sVars, stVars,
      wtVars, olVars, ldVars, bdVars, axVars>>
\* the variables of all but one component
notEnvVars ==
    <<hVars, dVars, fVars, mVars, gVars, pVars,
      dsVars, bVars, aVars, sVars, stVars, wtVars,
      olVars, ldVars, bdVars, axVars>>
notHVars ==
    <<envVars, dVars, fVars, mVars, gVars, pVars,
      dsVars, bVars, aVars, sVars, stVars, wtVars,
      olVars, ldVars, bdVars, axVars>>
notDVars ==
    <<envVars, hVars, fVars, mVars, gVars, pVars,
      dsVars, bVars, aVars, sVars, stVars, wtVars,
      olVars, ldVars, bdVars, axVars>>
notFVars ==
    <<envVars, hVars, dVars, mVars, gVars, pVars,
      dsVars, bVars, aVars, sVars, stVars, wtVars,
      olVars, ldVars, bdVars, axVars>>
notMVars ==
    <<envVars, hVars, dVars, fVars, gVars, pVars,
      dsVars, bVars, aVars, sVars, stVars, wtVars,
      olVars, ldVars, bdVars, axVars>>
notGVars ==
    <<envVars, hVars, dVars, fVars, mVars, pVars,
      dsVars, bVars, aVars, sVars, stVars, wtVars,
      olVars, ldVars, bdVars, axVars>>
notPVars ==
    <<envVars, hVars, dVars, fVars, mVars, gVars,
      dsVars, bVars, aVars, sVars, stVars, wtVars,
      olVars, ldVars, bdVars, axVars>>
notDsVars ==
    <<envVars, hVars, dVars, fVars, mVars, gVars,
      pVars, bVars, aVars, sVars, stVars, wtVars,
      olVars, ldVars, bdVars, axVars>>
notBVars ==
    <<envVars, hVars, dVars, fVars, mVars, gVars,
      pVars, dsVars, aVars, sVars, stVars, wtVars,
      olVars, ldVars, bdVars, axVars>>
notAVars ==
    <<envVars, hVars, dVars, fVars, mVars, gVars,
      pVars, dsVars, bVars, sVars, stVars, wtVars,
      olVars, ldVars, bdVars, axVars>>
notSVars ==
    <<envVars, hVars, dVars, fVars, mVars, gVars,
      pVars, dsVars, bVars, aVars, stVars, wtVars,
      olVars, ldVars, bdVars, axVars>>
notStVars ==
    <<envVars, hVars, dVars, fVars, mVars, gVars,
      pVars, dsVars, bVars, aVars, sVars, wtVars,
      olVars, ldVars, bdVars, axVars>>
notWtVars ==
    <<envVars, hVars, dVars, fVars, mVars, gVars,
      pVars, dsVars, bVars, aVars, sVars, stVars,
      olVars, ldVars, bdVars, axVars>>
notOlVars ==
    <<envVars, hVars, dVars, fVars, mVars, gVars,
      pVars, dsVars, bVars, aVars, sVars, stVars,
      wtVars, ldVars, bdVars, axVars>>
notLdVars ==
    <<envVars, hVars, dVars, fVars, mVars, gVars,
      pVars, dsVars, bVars, aVars, sVars, stVars,
      wtVars, olVars, bdVars, axVars>>
notBdVars ==
    <<envVars, hVars, dVars, fVars, mVars, gVars,
      pVars, dsVars, bVars, aVars, sVars, stVars,
      wtVars, olVars, ldVars, axVars>>
notAxVars ==
    <<envVars, hVars, dVars, fVars, mVars, gVars,
      pVars, dsVars, bVars, aVars, sVars, stVars,
      wtVars, olVars, ldVars, bdVars>>

\* the range of a sequence
Range(s) == {s[i] : i \in 1..Len(s)}

(***************************************************************************)
(* GitEnvironment: scoped overrides                                        *)
(***************************************************************************)

\* configuration keys and values used in the model
Keys == {"k1", "k2", "k3"}
OldVals == {<<"a">>, <<"a", "b">>}
NewVals == {<<"x">>, <<"x", "y">>}
\* UnsetValue, the sentinel of the settings toolkit
UnsetValue == "UnsetValue"
\* largest number of keys in one overrides mapping
MaxOverrides == 2

\* The environment maps every key to the tuple of its values; the empty
\* tuple stands for a key that is not in the environment.
EnvHas(e, k) == e[k] # <<>>

\* getall(k, item_type(UnsetValue)): all values, or the default if absent
GetAll(e, k) == IF EnvHas(e, k) THEN e[k] ELSE <<UnsetValue>>

\* _setall / _set_item: env[key] = values; set_gitconfig_items_in_env(env)
SetAll(e, k, vals) == [e EXCEPT ![k] = vals]

\* _del_item: del env[key]; set_gitconfig_items_in_env(env)
DelItem(e, k) == [e EXCEPT ![k] = <<>>]

\* lines 98-103: snapshot each key, then post the override, in dict order
RECURSIVE ApplyOverrides(_, _, _, _)
ApplyOverrides(e, ov, i, rst) ==
    IF i > Len(ov) THEN [env |-> e, restore |-> rst]
    ELSE ApplyOverrides(SetAll(e, ov[i].key, ov[i].vals), ov, i + 1,
                        Append(rst, [key |-> ov[i].key,
                                     vals |-> GetAll(e, ov[i].key)]))

\* line 113: the snapshot says the key was absent
WasUnset(vals) == Len(vals) = 1 /\ vals[1] = UnsetValue

\* lines 112-116: the finally block; `break` leaves the loop after a delete
RECURSIVE RestoreEnv(_, _, _)
RestoreEnv(e, rst, i) ==
    IF i > Len(rst) THEN e
    ELSE IF WasUnset(rst[i].vals)
         THEN DelItem(e, rst[i].key)
         ELSE RestoreEnv(SetAll(e, rst[i].key, rst[i].vals), rst, i + 1)

\* all mappings with 1..MaxOverrides distinct keys, in every iteration order
OverrideEntries == [key : Keys, vals : NewVals]
OverrideMappings ==
    {ov \in UNION {[1..n -> OverrideEntries] : n \in 1..MaxOverrides} :
        \A i, j \in 1..Len(ov) : i # j => ov[i].key # ov[j].key}

InitEnv ==
    /\ env \in [Keys -> OldVals \cup {<<>>}]
    /\ envBefore = env
    /\ overrides = <<>>
    /\ restore = <<>>
    /\ envpc = "idle"
    /\ bodyRaised = FALSE

IdleEnv ==
    /\ env = [k \in Keys |-> <<>>]
    /\ envBefore = env
    /\ overrides = <<>>
    /\ restore = <<>>
    /\ envpc = "idle"
    /\ bodyRaised = FALSE

\* `with manager.overrides(ov):` up to the yield (manager.py 117-119
\* forwards to the git-command source)
EnterOverrides(ov) ==
    /\ envpc = "idle"
    /\ LET r == ApplyOverrides(env, ov, 1, <<>>)
       IN /\ env' = r.env
          /\ restore' = r.restore
    /\ envBefore' = env
    /\ overrides' = ov
    /\ envpc' = "body"
    /\ bodyRaised' = FALSE
    /\ UNCHANGED notEnvVars

\* the with-body sets a configuration item of the git-command scope
BodySetItem(k, v) ==
    /\ envpc = "body"
    /\ env[k] # <<v>>
    /\ env' = SetAll(env, k, <<v>>)
    /\ UNCHANGED <<envBefore, overrides, restore, envpc, bodyRaised>>
    /\ UNCHANGED notEnvVars

\* the with-body ends, normally or with an exception: the finally block runs
ExitOverrides(raised) ==
    /\ envpc = "body"
    /\ env' = RestoreEnv(env, restore, 1)
    /\ envpc' = "exited"
    /\ bodyRaised' = raised
    /\ UNCHANGED <<envBefore, overrides, restore>>
    /\ UNCHANGED notEnvVars

\* `with manager.overrides(ov):` where posting the n-th override raises
\* (lines 98-103, in front of the try statement): the overrides before it
\* are posted, the snapshot of the n-th key is taken, and the exception
\* leaves the context manager before the with-body is entered
EnterOverridesFails(ov, n) ==
    /\ envpc = "idle"
    /\ n \in 1..Len(ov)
    /\ LET r == ApplyOverrides(env, SubSeq(ov, 1, n - 1), 1, <<>>)
       IN /\ env' = r.env
          /\ restore' = Append(r.restore,
                               [key |-> ov[n].key,
                                vals |-> GetAll(r.env, ov[n].key)])
    /\ envBefore' = env
    /\ overrides' = ov
    /\ envpc' = "failed"
    /\ bodyRaised' = FALSE
    /\ UNCHANGED notEnvVars

NextEnv ==
    \/ \E ov \in OverrideMappings : EnterOverrides(ov)
    \/ \E ov \in OverrideMappings : \E n \in 1..MaxOverrides :
          EnterOverridesFails(ov, n)
    \/ \E k \in Keys : BodySetItem(k, "z")
    \/ \E raised \in BOOLEAN : ExitOverrides(raised)

(***************************************************************************)
(* StandardResultHandler                                                   *)
(***************************************************************************)

\* largest number of results a producer yields
MaxResults == 4

Statuses == {"ok", "notneeded", "impossible", "error"}
\* A result is None/empty ("none"), a dict without 'action' ("noaction"),
\* or a dict with 'action' and a status.
Results ==
    {[kind |-> "none", status |-> "ok"]}
        \cup [kind : {"noaction"}, status : {"ok", "error"}]
        \cup [kind : {"result"}, status : Statuses]

\* line 51: `if not res or 'action' not in res: continue`
IsSkipped(res) == res.kind # "result"

\* variant: only status 'error' is recorded as a failure
IsRecordedFailureErrorOnly(mode, res) ==
    /\ mode \in {"continue", "stop"}
    /\ res.status = "error"

\* lines 57-60: the result counts as a failure under this on_failure mode
IsRecordedFailure(mode, res) ==
    /\ mode \in {"continue", "stop"}
    /\ res.status \in {"impossible", "error"}

\* variant: on_failure='stop' does not leave the loop
BreaksLoopNever(mode) == FALSE

\* line 62: stop at the first recorded failure
BreaksLoop(mode) == mode = "stop"

InitHandler ==
    /\ produced \in UNION {[1..n -> Results] : n \in 0..MaxResults}
    /\ on_failure \in {"continue", "stop", "ignore"}
    /\ pos = 0
    /\ yielded = <<>>
    /\ logged = <<>>
    /\ rendered = <<>>
    /\ error_results = <<>>
    /\ hpc = "loop"

IdleHandler ==
    /\ produced = <<>>
    /\ on_failure = "continue"
    /\ pos = 0
    /\ yielded = <<>>
    /\ logged = <<>>
    /\ rendered = <<>>
    /\ error_results = <<>>
    /\ hpc = "loop"

\* lines 76-78 as a function of the collected errors
AfterLoop(errs) == IF errs # <<>> THEN "raised" ELSE "returned"

\* variant: the result is yielded before the failure bookkeeping
LoopBodyYieldFirst(mode, res, i, st) ==
    IF IsSkipped(res) THEN st
    ELSE LET seen == [st EXCEPT !.logged = Append(@, i),
                                !.rendered = Append(@, i),
                                !.yielded = Append(@, i)]
         IN IF IsRecordedFailure(mode, res)
            THEN LET rec == [seen EXCEPT !.errors = Append(@, i)]
                 IN IF BreaksLoop(mode)
                    THEN [rec EXCEPT !.hpc = AfterLoop(rec.errors)]
                    ELSE rec
            ELSE seen

\* The body of `for res in producer()` (lines 51-71) for the result at
\* position i, on the handler state st; when the loop is left by `break`
\* the code after the loop (lines 76-78) runs at once.
LoopBody(mode, res, i, st) ==
    IF IsSkipped(res) THEN st
    ELSE LET seen == [st EXCEPT !.logged = Append(@, i),
                                !.rendered = Append(@, i)]
         IN IF IsRecordedFailure(mode, res)
            THEN LET rec == [seen EXCEPT !.errors = Append(@, i)]
                 IN IF BreaksLoop(mode)
                    THEN [rec EXCEPT !.hpc = AfterLoop(rec.errors)]
                    ELSE [rec EXCEPT !.yielded = Append(@, i)]
            ELSE [seen EXCEPT !.yielded = Append(@, i)]

\* one iteration of the loop: pull the next result and handle it
HandleResult ==
    /\ hpc = "loop"
    /\ pos < Len(produced)
    /\ pos' = pos + 1
    /\ LET st == LoopBody(on_failure, produced[pos + 1], pos + 1,
                          [yielded |-> yielded, logged |-> logged,
                           rendered |-> rendered, errors |-> error_results,
                           hpc |-> hpc])
       IN /\ yielded' = st.yielded
          /\ logged' = st.logged
          /\ rendered' = st.rendered
          /\ error_results' = st.errors
          /\ hpc' = st.hpc
    /\ UNCHANGED <<produced, on_failure>>
    /\ UNCHANGED notHVars

\* the producer is exhausted: lines 76-78
ProducerExhausted ==
    /\ hpc = "loop"
    /\ pos = Len(produced)
    /\ hpc' = AfterLoop(error_results)
    /\ UNCHANGED <<produced, on_failure, pos, yielded, logged, rendered,
                   error_results>>
    /\ UNCHANGED notHVars

NextHandler ==
    \/ HandleResult
    \/ ProducerExhausted

(***************************************************************************)
(* _iter_gitdiff: parsing of Git's raw diff output                         *)
(***************************************************************************)

\* largest number of records in one diff
MaxRecords == 3

\* status letters: addition, modification, rename, copy
DiffStatuses == {"A", "M", "R", "C"}
\* the end marker chained after Git's output (line 274)
EndMarker == [kind |-> "end", rec |-> 0, n |-> 0, status |-> "-"]
\* the header item ":<modes> <shas> <status>" of record r
HeaderLine(r, st) == [kind |-> "header", rec |-> r, n |-> 0, status |-> st]
\* the n-th path item of record r
PathLine(r, n) == [kind |-> "path", rec |-> r, n |-> n, status |-> "-"]
\* the tree-ish item diff-tree prints first when no from_treeish is given
TreeishLine == [kind |-> "treeish", rec |-> 0, n |-> 0, status |-> "-"]

\* Git's -z raw format: a header and one path per record, and a second
\* path for renames and copies
RecordLines(r, st) ==
    IF st \in {"R", "C"}
    THEN <<HeaderLine(r, st), PathLine(r, 1), PathLine(r, 2)>>
    ELSE <<HeaderLine(r, st), PathLine(r, 1)>>

RECURSIVE RawOutput(_, _)
RawOutput(recs, r) ==
    IF r > Len(recs) THEN <<>>
    ELSE RecordLines(r, recs[r]) \o RawOutput(recs, r + 1)

\* lines 385-420: decode the accumulated fields; spec[4] is the status of
\* the header, spec[5] and spec[6] are the first and second item appended
SpecStatus(spec) == spec[1].status
SpecLength(spec) == Len(spec) + 4
SpecField(spec, n) == spec[n - 3]
GetDiffItem(spec) ==
    IF SpecStatus(spec) = "A"
    THEN [status |-> "A", relpath |-> SpecField(spec, 5),
          prev_relpath |-> EndMarker]
    ELSE [status |-> SpecStatus(spec),
          relpath |-> IF SpecLength(spec) > 6 THEN SpecField(spec, 6)
                      ELSE SpecField(spec, 5),
          prev_relpath |-> SpecField(spec, 5)]

\* line 281: a second path is expected
ExpectsSecondPath(spec) == SpecStatus(spec) \in {"C", "R"}

InitDiff ==
    /\ records \in UNION {[1..n -> DiffStatuses] : n \in 0..MaxRecords}
    /\ skip_first \in BOOLEAN
    /\ lines = (IF skip_first THEN <<TreeishLine>> ELSE <<>>)
                  \o RawOutput(records, 1) \o <<EndMarker>>
    /\ dpos = 0
    /\ pending_props = <<>>
    /\ items = <<>>

IdleDiff ==
    /\ records = <<>>
    /\ skip_first = FALSE
    /\ lines = <<EndMarker>>
    /\ dpos = 0
    /\ pending_props = <<>>
    /\ items = <<>>

\* lines 275-277
SkipFirstLine ==
    /\ dpos < Len(lines)
    /\ skip_first
    /\ skip_first' = FALSE
    /\ dpos' = dpos + 1
    /\ UNCHANGED <<records, lines, pending_props, items>>
    /\ UNCHANGED notDVars

\* lines 278-285: the item is appended and a second path is awaited
AwaitSecondPath ==
    /\ dpos < Len(lines)
    /\ ~skip_first
    /\ pending_props # <<>>
    /\ lines[dpos + 1] # EndMarker
    /\ ExpectsSecondPath(Append(pending_props, lines[dpos + 1]))
    /\ pending_props' = Append(pending_props, lines[dpos + 1])
    /\ dpos' = dpos + 1
    /\ UNCHANGED <<records, lines, skip_first, items>>
    /\ UNCHANGED notDVars

\* lines 278-298: the record is complete (or the output ended): yield it.
\* Non-submodule items outside single-directory mode are yielded as they are
\* (lines 472-475).
YieldDiffItem ==
    /\ dpos < Len(lines)
    /\ ~skip_first
    /\ pending_props # <<>>
    /\ LET line == lines[dpos + 1]
           spec == IF line # EndMarker THEN Append(pending_props, line)
                   ELSE pending_props
       IN /\ line # EndMarker => ~ExpectsSecondPath(spec)
          /\ items' = Append(items, GetDiffItem(spec))
    /\ pending_props' = <<>>
    /\ dpos' = dpos + 1
    /\ UNCHANGED <<records, lines, skip_first>>
    /\ UNCHANGED notDVars

\* lines 299-301: the end marker with nothing pending
EndOfOutput ==
    /\ dpos < Len(lines)
    /\ ~skip_first
    /\ pending_props = <<>>
    /\ lines[dpos + 1] = EndMarker
    /\ dpos' = dpos + 1
    /\ UNCHANGED <<records, lines, skip_first, pending_props, items>>
    /\ UNCHANGED notDVars

\* lines 302-303: a header starts a new record
StartRecord ==
    /\ dpos < Len(lines)
    /\ ~skip_first
    /\ pending_props = <<>>
    /\ lines[dpos + 1].kind = "header"
    /\ pending_props' = <<lines[dpos + 1]>>
    /\ dpos' = dpos + 1
    /\ UNCHANGED <<records, lines, skip_first, items>>
    /\ UNCHANGED notDVars

NextDiff ==
    \/ SkipFirstLine
    \/ AwaitSecondPath
    \/ YieldDiffItem
    \/ EndOfOutput
    \/ StartRecord

(***************************************************************************)
(* PathBasedFlyweight: Repo and Worktree construction                      *)
(***************************************************************************)

\* largest number of instances constructed in one behaviour
MaxInstances == 2

Threads == {"t1", "t2"}
NoThread == "none"
Classes == {"Repo", "Worktree"}
\* absolute paths: a directory and a directory below it
Paths == {"/top", "/top/sub"}
\* the directories from a path upwards, nearest first
Upwards(p) == IF p = "/top/sub" THEN <<"/top/sub", "/top">> ELSE <<"/top">>
\* no instance (None)
NoInstance == 0

\* Git's repository discovery from directory p: the nearest directory from
\* p upwards at which a repository is rooted, "" if there is none
Toplevel(fs, p) ==
    LET found == SelectSeq(Upwards(p), LAMBDA d : d \in fs)
    IN IF found = <<>> THEN "" ELSE found[1]

\* gitmanaged.py 37-66: `git rev-parse --git-dir` run in the instance's path
FlyweightValid(fs, inst) == Toplevel(fs, inst.path) # ""

\* flyweight.py 34: id_ = path.absolute()
FlyweightId(cls, path) == path

\* variant: the cached instance is reused without asking for its validity
MustConstructUnlessCached(instance, valid) == instance = NoInstance

\* flyweight.py 46: `instance is None or not instance.flyweight_valid()`
MustConstruct(instance, valid) == instance = NoInstance \/ ~valid

\* variant: the block is entered without taking the lock
LockIgnored(l) == TRUE

\* flyweight.py 42: `with cls._lock` can be entered
LockFree(l) == l = NoThread

\* repo.py 32-37, worktree.py 34-58, gitmanaged.py 22-24: the _path of a new
\* instance, "" when the constructor raises ValueError
ConstructedPath(fs, cls, path) ==
    IF cls = "Worktree" THEN Toplevel(fs, path) ELSE path

\* instances referenced by a thread (a local variable or a returned object)
Referenced == {tinst[t] : t \in Threads} \ {NoInstance}

IdleFly ==
    /\ gitAt = {}
    /\ fsChanged = FALSE
    /\ lock = NoThread
    /\ unique_instances = [c \in Classes |-> [p \in Paths |-> NoInstance]]
    /\ instances = <<>>
    /\ tpc = [t \in Threads |-> "idle"]
    /\ treq = [t \in Threads |-> [cls |-> "Repo", path |-> "/top"]]
    /\ tinst = [t \in Threads |-> NoInstance]
    /\ tprev = [t \in Threads |-> NoInstance]
    /\ tvalid = [t \in Threads |-> FALSE]
    /\ waited = [t \in Threads |-> FALSE]

InitFly ==
    /\ gitAt \in SUBSET Paths
    /\ fsChanged = FALSE
    /\ lock = NoThread
    /\ unique_instances = [c \in Classes |-> [p \in Paths |-> NoInstance]]
    /\ instances = <<>>
    /\ tpc = [t \in Threads |-> "idle"]
    /\ treq = [t \in Threads |-> [cls |-> "Repo", path |-> "/top"]]
    /\ tinst = [t \in Threads |-> NoInstance]
    /\ tprev = [t \in Threads |-> NoInstance]
    /\ tvalid = [t \in Threads |-> FALSE]
    /\ waited = [t \in Threads |-> FALSE]

\* a repository is created at, or removed from, a directory
CreateRepo(p) ==
    /\ p \notin gitAt
    /\ gitAt' = gitAt \cup {p}
    /\ fsChanged' = TRUE
    /\ UNCHANGED <<lock, unique_instances, instances, tpc, treq, tinst,
                   tprev, tvalid, waited>>
    /\ UNCHANGED notFVars

RemoveRepo(p) ==
    /\ p \in gitAt
    /\ gitAt' = gitAt \ {p}
    /\ fsChanged' = TRUE
    /\ UNCHANGED <<lock, unique_instances, instances, tpc, treq, tinst,
                   tprev, tvalid, waited>>
    /\ UNCHANGED notFVars

\* flyweight.py 33-34: a thread calls cls(path); it drops the reference it
\* held from an earlier call
Call(t, cls, path) ==
    /\ tpc[t] \in {"idle", "returned", "raised"}
    /\ Len(instances) + Cardinality({u \in Threads : tpc[u] \in
            {"wait", "lookup", "construct"}}) < MaxInstances
    /\ tpc' = [tpc EXCEPT ![t] = "wait"]
    /\ treq' = [treq EXCEPT ![t] = [cls |-> cls, path |-> path]]
    /\ tinst' = [tinst EXCEPT ![t] = NoInstance]
    /\ tprev' = [tprev EXCEPT ![t] = NoInstance]
    /\ tvalid' = [tvalid EXCEPT ![t] = FALSE]
    /\ waited' = [waited EXCEPT ![t] = lock # NoThread]
    /\ UNCHANGED <<gitAt, fsChanged, lock, unique_instances, instances>>
    /\ UNCHANGED notFVars

\* flyweight.py 42: the lock is acquired
Acquire(t) ==
    /\ tpc[t] = "wait"
    /\ LockFree(lock)
    /\ lock' = t
    /\ tpc' = [tpc EXCEPT ![t] = "lookup"]
    /\ UNCHANGED <<gitAt, fsChanged, unique_instances, instances, treq,
                   tinst, tprev, tvalid, waited>>
    /\ UNCHANGED notFVars

\* flyweight.py 45-46: the cache lookup and the validity test
CheckCached(t) ==
    /\ tpc[t] = "lookup"
    /\ LET id_ == FlyweightId(treq[t].cls, treq[t].path)
           instance == unique_instances[treq[t].cls][id_]
           valid == IF instance = NoInstance THEN FALSE
                    ELSE FlyweightValid(gitAt, instances[instance])
       IN /\ tprev' = [tprev EXCEPT ![t] = instance]
          /\ tvalid' = [tvalid EXCEPT ![t] = valid]
          /\ IF MustConstruct(instance, valid)
             THEN /\ tpc' = [tpc EXCEPT ![t] = "construct"]
                  /\ tinst' = [tinst EXCEPT ![t] = NoInstance]
             ELSE /\ tpc' = [tpc EXCEPT ![t] = "release"]
                  /\ tinst' = [tinst EXCEPT ![t] = instance]
    /\ UNCHANGED <<gitAt, fsChanged, lock, unique_instances, instances, treq,
                   waited>>
    /\ UNCHANGED notFVars

\* flyweight.py 52-55: the instance is constructed and cached
ConstructAndCache(t) ==
    /\ tpc[t] = "construct"
    /\ ConstructedPath(gitAt, treq[t].cls, treq[t].path) # ""
    /\ instances' = Append(instances,
          [cls |-> treq[t].cls,
           path |-> ConstructedPath(gitAt, treq[t].cls, treq[t].path)])
    /\ tinst' = [tinst EXCEPT ![t] = Len(instances) + 1]
    /\ unique_instances' =
          [unique_instances EXCEPT
              ![treq[t].cls][FlyweightId(treq[t].cls, treq[t].path)] =
                  Len(instances) + 1]
    /\ tpc' = [tpc EXCEPT ![t] = "release"]
    /\ UNCHANGED <<gitAt, fsChanged, lock, treq, tprev, tvalid, waited>>
    /\ UNCHANGED notFVars

\* worktree.py 54-56: the constructor raises ValueError; the exception
\* leaves the `with` block, which releases the lock
ConstructRaises(t) ==
    /\ tpc[t] = "construct"
    /\ ConstructedPath(gitAt, treq[t].cls, treq[t].path) = ""
    /\ tpc' = [tpc EXCEPT ![t] = "raised"]
    /\ lock' = IF lock = t THEN NoThread ELSE lock
    /\ UNCHANGED <<gitAt, fsChanged, unique_instances, instances, treq,
                   tinst, tprev, tvalid, waited>>
    /\ UNCHANGED notFVars

\* flyweight.py 57: the lock is released and the instance returned
Return(t) ==
    /\ tpc[t] = "release"
    /\ lock' = IF lock = t THEN NoThread ELSE lock
    /\ tpc' = [tpc EXCEPT ![t] = "returned"]
    /\ UNCHANGED <<gitAt, fsChanged, unique_instances, instances, treq,
                   tinst, tprev, tvalid, waited>>
    /\ UNCHANGED notFVars

\* the caller drops the returned instance
DropReference(t) ==
    /\ tpc[t] = "returned"
    /\ tinst[t] # NoInstance
    /\ tpc' = [tpc EXCEPT ![t] = "idle"]
    /\ tinst' = [tinst EXCEPT ![t] = NoInstance]
    /\ treq' = [treq EXCEPT ![t] = [cls |-> "Repo", path |-> "/top"]]
    /\ tprev' = [tprev EXCEPT ![t] = NoInstance]
    /\ tvalid' = [tvalid EXCEPT ![t] = FALSE]
    /\ waited' = [waited EXCEPT ![t] = FALSE]
    /\ UNCHANGED <<gitAt, fsChanged, lock, unique_instances, instances>>
    /\ UNCHANGED notFVars

\* repo.py 30, worktree.py 32: the caches are WeakValueDictionary; the entry
\* of an instance nobody references disappears
CollectInstance(cls, p) ==
    /\ unique_instances[cls][p] # NoInstance
    /\ unique_instances[cls][p] \notin Referenced
    /\ unique_instances' = [unique_instances EXCEPT ![cls][p] = NoInstance]
    /\ UNCHANGED <<gitAt, fsChanged, lock, instances, tpc, treq, tinst,
                   tprev, tvalid, waited>>
    /\ UNCHANGED notFVars

NextFly ==
    \/ \E p \in Paths : CreateRepo(p)
    \/ \E p \in Paths : RemoveRepo(p)
    \/ \E t \in Threads, cls \in Classes, p \in Paths : Call(t, cls, p)
    \/ \E t \in Threads : Acquire(t)
    \/ \E t \in Threads : CheckCached(t)
    \/ \E t \in Threads : ConstructAndCache(t)
    \/ \E t \in Threads : ConstructRaises(t)
    \/ \E t \in Threads : Return(t)
    \/ \E t \in Threads : DropReference(t)
    \/ \E cls \in Classes, p \in Paths : CollectInstance(cls, p)

(***************************************************************************)
(* ConfigManager.get_from_protected_sources                                *)
(***************************************************************************)

\* repo.py 76-82 and manager.py 65: the sources of a repository's manager,
\* from highest to lowest precedence
SourceOrder == <<"git-command", "git-local", "git-global", "git-system",
                 "datalad-branch", "defaults">>
SourceKeys == Range(SourceOrder)
\* manager.py 78-89
DefaultProtected == {"git-command", "git-global", "git-system", "defaults"}

\* An item has a pristine value (possibly UnsetValue) and possibly a coercer.
ConfigValues == {"a", "b"}
Coercers == {"none", "bool"}
\* the source does not have the key (KeyError)
NoItem == [value |-> "KeyError", coercer |-> "none"]
\* Git-backed sources hold plain items, the defaults may carry a coercer
GitItems == [value : ConfigValues \cup {UnsetValue}, coercer : {"none"}]
DefaultsItems == [value : ConfigValues \cup {UnsetValue}, coercer : Coercers]
ItemsOf(sk) == IF sk = "defaults" THEN DefaultsItems ELSE GitItems
\* the values a caller passes as `default` (None included)
QueryDefaults == {"None", "d"}

\* Setting.update(other) of the settings toolkit, as ConfigItem inherits it:
\* a value set in `other` replaces the value, a coercer set in `other`
\* replaces the coercer
UpdateItem(item, other) ==
    [value |-> IF other.value # UnsetValue THEN other.value ELSE item.value,
     coercer |-> IF other.coercer # "none" THEN other.coercer
                 ELSE item.coercer]

\* _get_default_setting(default): the default wrapped in the item type
DefaultSetting(default) == [value |-> default, coercer |-> "none"]

\* variant: every source is taken into account
IsProtectedAlways(prot, sk) == TRUE

\* manager.py 180: `sk not in self._protected_source_keys` skips the source
IsProtected(prot, sk) == sk \in prot

\* manager.py 179-198: the loop over reversed(self._sources), from position
\* i of SourceOrder down to the highest precedence; item is NoItem for None
RECURSIVE FoldSources(_, _, _, _)
FoldSources(c, prot, i, item) ==
    IF i < 1 THEN item
    ELSE LET sk == SourceOrder[i] IN
         IF ~IsProtected(prot, sk) THEN FoldSources(c, prot, i - 1, item)
         ELSE IF c[sk] = NoItem THEN FoldSources(c, prot, i - 1, item)
         ELSE IF item = NoItem THEN FoldSources(c, prot, i - 1, c[sk])
         ELSE FoldSources(c, prot, i - 1, UpdateItem(item, c[sk]))

\* manager.py 173-203
GetFromProtectedSources(c, prot, default) ==
    LET folded == FoldSources(c, prot, Len(SourceOrder), NoItem)
        item == IF folded = NoItem THEN DefaultSetting(default) ELSE folded
    IN IF item.value = UnsetValue
       THEN UpdateItem(item, DefaultSetting(default))
       ELSE item

IdleMgr ==
    /\ cfg = [sk \in SourceKeys |-> NoItem]
    /\ protected_source_keys = DefaultProtected
    /\ qdefault = "None"
    /\ qresult = NoItem

InitMgr ==
    /\ cfg = [sk \in SourceKeys |-> NoItem]
    /\ protected_source_keys = DefaultProtected
    /\ qdefault = "None"
    /\ qresult = NoItem

\* source[key] = item, by this process or (for datalad-branch) by a merge
SetSourceItem(sk, item) ==
    /\ cfg[sk] # item
    /\ cfg' = [cfg EXCEPT ![sk] = item]
    /\ qresult' = NoItem
    /\ UNCHANGED <<protected_source_keys, qdefault>>
    /\ UNCHANGED notMVars

\* del source[key]
DelSourceItem(sk) ==
    /\ cfg[sk] # NoItem
    /\ cfg' = [cfg EXCEPT ![sk] = NoItem]
    /\ qresult' = NoItem
    /\ UNCHANGED <<protected_source_keys, qdefault>>
    /\ UNCHANGED notMVars

\* manager.py 205-225 (repo.py 87 declares git-local)
DeclareSourceProtected(sk) ==
    /\ sk \in SourceKeys
    /\ sk \notin protected_source_keys
    /\ protected_source_keys' = protected_source_keys \cup {sk}
    /\ qresult' = NoItem
    /\ UNCHANGED <<cfg, qdefault>>
    /\ UNCHANGED notMVars

\* manager.get_from_protected_sources(key, default)
QueryProtected(default) ==
    /\ qresult = NoItem
    /\ qdefault' = default
    /\ qresult' = GetFromProtectedSources(cfg, protected_source_keys, default)
    /\ UNCHANGED <<cfg, protected_source_keys>>
    /\ UNCHANGED notMVars

NextMgr ==
    \/ \E sk \in SourceKeys : \E item \in ItemsOf(sk) : SetSourceItem(sk, item)
    \/ \E sk \in SourceKeys : DelSourceItem(sk)
    \/ \E sk \in SourceKeys : DeclareSourceProtected(sk)
    \/ \E default \in QueryDefaults : QueryProtected(default)

(***************************************************************************)
(* GitConfig: set and add through a Git-config-backed source               *)
(***************************************************************************)

\* the longest list of values kept for one key
MaxValues == 2

\* keys as callers spell them, and what _normalize_key makes of them
\* (git.py 368-383: section and variable name are lower-cased)
CfgKeys == {"my.key", "My.Key", "my.other"}
NormalizeKey(key) == IF key = "My.Key" THEN "my.key" ELSE key
NormalizedKeys == {NormalizeKey(key) : key \in CfgKeys}

\* item values: a Python value with its type, and the text str() gives
CfgValues == {[type |-> "str", text |-> "one"],
              [type |-> "int", text |-> "5"]}
\* str(value.value), the argument handed to git config
Str(value) == value.text
\* what _load makes of a stored text: ConfigItem(val) with a str value
Loaded(text) == [type |-> "str", text |-> text]

NoOp == [kind |-> "none", key |-> "my.key",
         value |-> [type |-> "str", text |-> "one"]]

\* variant: the cache is updated before git config is called
WriteStepsCacheFirst(kind) == <<"cache", "git">>

\* git.py 135-141 and 143-149: call_git([... '--replace-all' | '--add' ...])
\* and only then super()._set_item() / super()._add()
WriteSteps(kind) == <<"git", "cache">>

\* git config --replace-all key text / git config --add key text
GitConfigStore(b, kind, key, text) ==
    IF kind = "set" THEN [b EXCEPT ![key] = <<text>>]
    ELSE [b EXCEPT ![key] = Append(@, text)]

\* CachingSource._set_item / CachingSource._add on the cache
CacheStore(c, kind, key, value) ==
    IF kind = "set" THEN [c EXCEPT ![key] = <<value>>]
    ELSE [c EXCEPT ![key] = Append(@, value)]

IdleGitCfg ==
    /\ backing = [key \in NormalizedKeys |-> <<>>]
    /\ cache = [key \in NormalizedKeys |-> <<>>]
    /\ written = {}
    /\ gop = NoOp
    /\ gstep = 0
    /\ gpc = "idle"
    /\ cacheAtCall = [key \in NormalizedKeys |-> <<>>]

InitGitCfg ==
    /\ backing = [key \in NormalizedKeys |-> <<>>]
    /\ cache = [key \in NormalizedKeys |-> <<>>]
    /\ written = {}
    /\ gop = NoOp
    /\ gstep = 0
    /\ gpc = "idle"
    /\ cacheAtCall = [key \in NormalizedKeys |-> <<>>]

\* source[key] = item: _set_item is entered, the key normalized (135-136)
CallSetItem(key, value) ==
    /\ gpc # "run"
    /\ gop' = [kind |-> "set", key |-> NormalizeKey(key), value |-> value]
    /\ gstep' = 1
    /\ gpc' = "run"
    /\ cacheAtCall' = cache
    /\ UNCHANGED <<backing, cache, written>>
    /\ UNCHANGED notGVars

\* source.add(key, item): _add is entered, the key normalized (143-144)
CallAdd(key, value) ==
    /\ gpc # "run"
    /\ Len(backing[NormalizeKey(key)]) < MaxValues
    /\ Len(cache[NormalizeKey(key)]) < MaxValues
    /\ gop' = [kind |-> "add", key |-> NormalizeKey(key), value |-> value]
    /\ gstep' = 1
    /\ gpc' = "run"
    /\ cacheAtCall' = cache
    /\ UNCHANGED <<backing, cache, written>>
    /\ UNCHANGED notGVars

\* the call is over once its last step is done
AfterStep ==
    IF gstep = Len(WriteSteps(gop.kind))
    THEN gstep' = 0 /\ gpc' = "idle"
    ELSE gstep' = gstep + 1 /\ gpc' = "run"

\* call_git succeeds: the value's text is in the Git config file
GitConfigWrite ==
    /\ gpc = "run"
    /\ WriteSteps(gop.kind)[gstep] = "git"
    /\ backing' = GitConfigStore(backing, gop.kind, gop.key, Str(gop.value))
    /\ written' = written \cup {<<gop.key, Str(gop.value)>>}
    /\ AfterStep
    /\ UNCHANGED <<cache, gop, cacheAtCall>>
    /\ UNCHANGED notGVars

\* call_git raises CommandError: the exception leaves _set_item/_add
GitConfigWriteFails ==
    /\ gpc = "run"
    /\ WriteSteps(gop.kind)[gstep] = "git"
    /\ gpc' = "raised"
    /\ gstep' = 0
    /\ UNCHANGED <<backing, cache, written, gop, cacheAtCall>>
    /\ UNCHANGED notGVars

\* super()._set_item(key, value) / super()._add(key, value)
CacheUpdate ==
    /\ gpc = "run"
    /\ WriteSteps(gop.kind)[gstep] = "cache"
    /\ cache' = CacheStore(cache, gop.kind, gop.key, gop.value)
    /\ AfterStep
    /\ UNCHANGED <<backing, written, gop, cacheAtCall>>
    /\ UNCHANGED notGVars

\* del source[key]: git.py 129-130, the cache alone
CfgDelItem(key) ==
    /\ gpc # "run"
    /\ cache[NormalizeKey(key)] # <<>>
    /\ cache' = [cache EXCEPT ![NormalizeKey(key)] = <<>>]
    /\ gpc' = "idle"
    /\ UNCHANGED <<backing, written, gop, gstep, cacheAtCall>>
    /\ UNCHANGED notGVars

\* source.reinit().load(): the cache is rebuilt from git config --list
CfgLoad ==
    /\ gpc # "run"
    /\ cache' = [key \in NormalizedKeys |->
                    [i \in 1..Len(backing[key]) |-> Loaded(backing[key][i])]]
    /\ cache' # cache
    /\ gpc' = "idle"
    /\ UNCHANGED <<backing, written, gop, gstep, cacheAtCall>>
    /\ UNCHANGED notGVars

NextGitCfg ==
    \/ \E key \in CfgKeys : \E value \in CfgValues : CallSetItem(key, value)
    \/ \E key \in CfgKeys : \E value \in CfgValues : CallAdd(key, value)
    \/ GitConfigWrite
    \/ GitConfigWriteFails
    \/ CacheUpdate
    \/ \E key \in CfgKeys : CfgDelItem(key)
    \/ CfgLoad

(***************************************************************************)
(* JointParamProcessor.__call__                                            *)
(***************************************************************************)

\* the longest tuple of cross-parameter constraints
MaxParamSets == 2

\* the parameters of the command: get_allargs_as_kwargs passes all of them
ParamNames == {"dataset", "p1", "p2"}
\* a name only a cross-parameter constraint can introduce
AddedName == "p3"
AllNames == ParamNames \cup {AddedName}
\* tailor_for_dataset: p1's constraint is tailored to the dataset parameter
TailorForDataset == [p \in {"p1"} |-> "dataset"]
\* preproc.py 224: set(self._tailor_for_dataset.values())
DsProviderParams == {TailorForDataset[p] : p \in DOMAIN TailorForDataset}
\* the parameter sets cross-parameter constraints are declared for
ParamSetNames == {{"p1", "p2"}, {"dataset"}}
\* values: "-" no entry, "raw" as passed, "valid" returned by a constraint,
\* "Dataset" a Dataset instance, "joint" returned by a paramset constraint
NoEntry == "-"
\* what a paramset constraint does with the mapping it is given
ParamSetOutcomes == {"raise", "same", "drop", "add"}

RECURSIVE SeqsUpTo(_, _)
SeqsUpTo(S, n) ==
    IF n = 0 THEN {<<>>}
    ELSE LET shorter == SeqsUpTo(S, n - 1)
         IN shorter \cup {Append(sq, x) : sq \in shorter, x \in S}

\* ParamConstraintContext((pname,)): equal contexts are one dictionary key
ParamContext(pname) == {pname}
\* exceptions[ctx] = e
DictSet(d, ctx, err) ==
    {e \in d : e.ctx # ctx} \cup {[ctx |-> ctx, err |-> err]}
\* exceptions.update(other)
DictUpdate(d, other) ==
    {e \in d : \A o \in other : o.ctx # e.ctx} \cup other

\* constraint.py 83-90 and path.py 137: only a constraint class with an
\* implementation of its own has the attribute for_dataset
HasForDataset(kind) == kind = "tailorable"

\* variant: the first violation raises whatever on_error says
RaisesEarlyAlways(mode) == TRUE

\* preproc.py 255 and 358
RaisesEarly(mode) == mode = "raise-early"

\* variant: joint processing is attempted in any case
SkipsParamSetsNever(expected, failed) == FALSE

\* preproc.py 267
SkipsParamSets(expected, failed) == expected \cap failed # {}

\* preproc.py 263-265
ExpectedForProcParamSets(paramsets) ==
    UNION {paramsets[i] : i \in 1..Len(paramsets)}

\* preproc.py 289-326: _proc_param for parameter name, whose constraint
\* raises ConstraintError for this value iff violates
ProcParam(name, violates, atdef, kind, dskind, proc) ==
    IF name \in atdef
    THEN [outcome |-> "value", value |-> "raw", validator |-> "none"]
    ELSE LET tailor == name \in DOMAIN TailorForDataset
                       /\ proc[TailorForDataset[name]] = "Dataset"
             own == IF name = "dataset" THEN dskind
                    ELSE IF name = "p1" THEN kind ELSE "plain"
         IN IF tailor /\ ~HasForDataset(own)
            THEN [outcome |-> "AttributeError", value |-> NoEntry,
                  validator |-> "none"]
            ELSE LET validator == IF tailor THEN "tailored" ELSE own
                 IN IF violates
                    THEN [outcome |-> "ConstraintError", value |-> NoEntry,
                          validator |-> validator]
                    ELSE [outcome |-> "value",
                          value |-> IF own = "EnsureDataset" THEN "Dataset"
                                    ELSE "valid",
                          validator |-> validator]

\* the mapping a paramset constraint returns for the names it was given
ParamSetReturn(given, outcome) ==
    IF outcome = "same" THEN given
    ELSE IF outcome = "add" THEN given \cup {AddedName}
    ELSE given \ {IF "p2" \in given THEN "p2" ELSE "dataset"}

\* preproc.py 360-361: processed.update(**res)
MergeReturn(proc, returned) ==
    [n \in AllNames |-> IF n \in returned THEN "joint" ELSE proc[n]]

IdleProc ==
    /\ proc_on_error = "raise-early"
    /\ p1_constraint = "plain"
    /\ dataset_constraint = "NoConstraint"
    /\ at_default = {}
    /\ paramset_constraints = <<>>
    /\ ppc = "idle"
    /\ to_process = {}
    /\ processed = [n \in AllNames |-> NoEntry]
    /\ exceptions = {}
    /\ failed_to_process = {}
    /\ used = [n \in ParamNames |-> "none"]
    /\ attempted = {}
    /\ raisedFor = {}
    /\ invoked = <<>>

InitProc ==
    /\ proc_on_error \in {"raise-early", "raise-at-end"}
    /\ p1_constraint \in {"plain", "tailorable"}
    /\ dataset_constraint \in {"NoConstraint", "EnsureDataset"}
    /\ at_default \in {{}, {"dataset"}}
    /\ paramset_constraints \in SeqsUpTo(ParamSetNames, MaxParamSets)
    /\ ppc = "params"
    /\ to_process = ParamNames
    /\ processed = [n \in AllNames |-> NoEntry]
    /\ exceptions = {}
    /\ failed_to_process = {}
    /\ used = [n \in ParamNames |-> "none"]
    /\ attempted = {}
    /\ raisedFor = {}
    /\ invoked = <<>>

\* preproc.py 239-259: one pass of the loop, dataset providers first
ProcessParam(pname, violates) ==
    /\ ppc = "params"
    /\ pname \in to_process
    /\ pname \in DsProviderParams \/ to_process \cap DsProviderParams = {}
    /\ LET r == ProcParam(pname, violates, at_default, p1_constraint,
                          dataset_constraint, processed)
       IN /\ attempted' = attempted \cup {pname}
          /\ to_process' = to_process \ {pname}
          /\ used' = [used EXCEPT ![pname] = r.validator]
          /\ processed' = IF r.outcome = "value"
                          THEN [processed EXCEPT ![pname] = r.value]
                          ELSE processed
          /\ exceptions' = IF r.outcome = "ConstraintError"
                           THEN DictSet(exceptions, ParamContext(pname), pname)
                           ELSE exceptions
          /\ raisedFor' = IF r.outcome = "ConstraintError"
                          THEN raisedFor \cup {pname} ELSE raisedFor
          /\ failed_to_process' =
                IF r.outcome = "ConstraintError" /\ ~RaisesEarly(proc_on_error)
                THEN failed_to_process \cup {pname} ELSE failed_to_process
          /\ ppc' = IF r.outcome = "AttributeError" THEN "AttributeError"
                    ELSE IF r.outcome = "ConstraintError"
                            /\ RaisesEarly(proc_on_error)
                    THEN "ParamErrors"
                    ELSE "params"
    /\ UNCHANGED <<proc_on_error, p1_constraint, dataset_constraint,
                   at_default, paramset_constraints, invoked>>
    /\ UNCHANGED notPVars

\* preproc.py 261-268: the loop is over
CheckExpected ==
    /\ ppc = "params"
    /\ to_process = {}
    /\ ppc' = IF SkipsParamSets(
                    ExpectedForProcParamSets(paramset_constraints),
                    failed_to_process)
              THEN "ParamErrors" ELSE "paramsets"
    /\ UNCHANGED <<proc_on_error, p1_constraint, dataset_constraint,
                   at_default, paramset_constraints, to_process, processed,
                   exceptions, failed_to_process, used, attempted,
                   raisedFor, invoked>>
    /\ UNCHANGED notPVars

\* preproc.py 332-361: one pass of the loop of _proc_param_sets; a name
\* without an entry in processed makes the dict lookup raise KeyError
ProcessParamSet(outcome) ==
    /\ ppc = "paramsets"
    /\ Len(invoked) < Len(paramset_constraints)
    /\ LET i == Len(invoked) + 1
           given == paramset_constraints[i]
       IN IF \E n \in given : processed[n] = NoEntry
          THEN /\ ppc' = "KeyError"
               /\ UNCHANGED <<invoked, exceptions, processed>>
          ELSE /\ invoked' = Append(invoked,
                      [given |-> given,
                       returned |-> IF outcome = "raise" THEN {}
                                    ELSE ParamSetReturn(given, outcome),
                       raised |-> outcome = "raise"])
               /\ exceptions' = IF outcome = "raise"
                                THEN DictUpdate(exceptions,
                                        {[ctx |-> given, err |-> "paramset"]})
                                ELSE exceptions
               /\ processed' = IF outcome = "raise" THEN processed
                               ELSE MergeReturn(processed,
                                        ParamSetReturn(given, outcome))
               /\ ppc' = IF outcome = "raise" /\ RaisesEarly(proc_on_error)
                         THEN "ParamErrors" ELSE "paramsets"
    /\ UNCHANGED <<proc_on_error, p1_constraint, dataset_constraint,
                   at_default, paramset_constraints, to_process,
                   failed_to_process, used, attempted, raisedFor>>
    /\ UNCHANGED notPVars

\* preproc.py 363-366 and 278-287: every paramset constraint was called
Finish ==
    /\ ppc = "paramsets"
    /\ Len(invoked) = Len(paramset_constraints)
    /\ ppc' = IF exceptions # {} THEN "ParamErrors" ELSE "returned"
    /\ UNCHANGED <<proc_on_error, p1_constraint, dataset_constraint,
                   at_default, paramset_constraints, to_process, processed,
                   exceptions, failed_to_process, used, attempted,
                   raisedFor, invoked>>
    /\ UNCHANGED notPVars

NextProc ==
    \/ \E pname \in ParamNames : \E violates \in BOOLEAN :
          ProcessParam(pname, violates)
    \/ CheckExpected
    \/ \E outcome \in ParamSetOutcomes : ProcessParamSet(outcome)
    \/ Finish

(***************************************************************************)
(* Dataset (command parameter type) and EnsureDatasetPath                  *)
(***************************************************************************)

\* Paths are sequences of components; an absolute path starts with "/".
Root == "/"
IsAbsolute(p) == p # <<>> /\ p[1] = Root
\* pathlib's a / b
JoinPath(a, b) == IF IsAbsolute(b) THEN b ELSE a \o b
\* Path.cwd()
Cwd == <<Root, "cwd">>
\* Path.absolute()
AbsolutePath(p) == IF IsAbsolute(p) THEN p ELSE JoinPath(Cwd, p)

\* where a checkout or a bare repository can be on the file system
CheckoutRoot == <<Root, "wt">>
BareRoot == <<Root, "bare">>
\* the paths given as str or Path specs, and as values to the constraint
SpecPaths == {<<"whatever">>, CheckoutRoot, <<Root, "wt", "sub">>, BareRoot}
ValuePaths == {<<"relpath">>, <<Root, "abs">>}

\* None, and Repo / Worktree instances
None == [cls |-> "None", path |-> <<>>]
RepoAt(p) == [cls |-> "Repo", path |-> p]
WorktreeAt(p) == [cls |-> "Worktree", path |-> p]
NotAccessed == [cls |-> "NotAccessed", path |-> <<>>]

\* `git -C path rev-parse --show-toplevel`: the root of the checkout path
\* is in, <<>> where git fails
ShowToplevel(fs, path) ==
    LET p == AbsolutePath(path)
    IN IF CheckoutRoot \in fs /\ Len(p) >= Len(CheckoutRoot)
          /\ SubSeq(p, 1, Len(CheckoutRoot)) = CheckoutRoot
       THEN CheckoutRoot ELSE <<>>

\* repo.py 32-44, gitmanaged.py 22-24: Repo(path) takes the path as it is,
\* whatever is on the file system
NewRepo(fs, path) == RepoAt(AbsolutePath(path))

\* worktree.py 34-58; None stands for the ValueError that
\* get_gitmanaged_from_pathlike turns into None (dataset.py 165-173)
NewWorktree(fs, path) ==
    IF ShowToplevel(fs, path) = <<>> THEN None
    ELSE WorktreeAt(ShowToplevel(fs, path))

\* Worktree.repo: the repository of the checkout
RepoOfWorktree(wt) == RepoAt(wt.path \o <<".git">>)

\* dataset.py 141-159: the value of Dataset.worktree
DatasetWorktree(fs, spec, d) ==
    IF d.worktree # None THEN d.worktree
    ELSE IF spec.kind = "Worktree" THEN spec.obj
    ELSE IF spec.kind \in {"Path", "str"} THEN NewWorktree(fs, spec.path)
    ELSE None

\* dataset.py 111-138: the value of Dataset.repo
DatasetRepo(fs, spec, d) ==
    IF d.repo # None THEN d.repo
    ELSE IF DatasetWorktree(fs, spec, d) # None
         THEN RepoOfWorktree(DatasetWorktree(fs, spec, d))
    ELSE IF spec.kind = "Repo" THEN spec.obj
    ELSE IF spec.kind \in {"Path", "str"} THEN NewRepo(fs, spec.path)
    ELSE None

\* dataset.py 63-109: the value of Dataset.path
DatasetPath(fs, spec, d) ==
    IF d.path # <<>> THEN d.path
    ELSE IF spec.kind = "None" THEN Cwd
    ELSE IF DatasetWorktree(fs, spec, d) # None
         THEN DatasetWorktree(fs, spec, d).path
    ELSE IF DatasetRepo(fs, spec, d) # None
         THEN DatasetRepo(fs, spec, d).path
    ELSE spec.path

\* path.py 75-123: EnsurePath(is_format=...)(path); <<>> stands for the
\* ConstraintError
EnsurePath(format, path) ==
    IF format = "absolute" /\ ~IsAbsolute(path) THEN <<>>
    ELSE IF format = "relative" /\ IsAbsolute(path) THEN <<>>
    ELSE path

\* variant: an absent value stands for the working directory
PathForValueCwd(value, dspath) == IF value = <<>> THEN Cwd ELSE value

\* path.py 174-178: value None (<<>>) stands for the dataset's path
PathForValue(value, dspath) == IF value = <<>> THEN dspath ELSE value

\* path.py 168-184: EnsureDatasetPath.__call__
EnsureDatasetPath(format, value, spec, dspath) ==
    IF value # <<>> /\ spec.kind # "Worktree"
    THEN EnsurePath(format, value)
    ELSE LET path == PathForValue(value, dspath)
         IN EnsurePath(format,
               IF ~IsAbsolute(path) THEN JoinPath(dspath, path) ELSE path)

\* the specs a Dataset can be made from on file system fs
DatasetSpecs(fs) ==
    {[kind |-> "None", path |-> <<>>, obj |-> None]}
    \cup {[kind |-> k, path |-> p, obj |-> None] :
            k \in {"str", "Path"}, p \in SpecPaths}
    \cup {[kind |-> "Worktree", path |-> <<>>, obj |-> WorktreeAt(r)] :
            r \in fs \cap {CheckoutRoot}}
    \cup {[kind |-> "Repo", path |-> <<>>, obj |-> RepoAt(r)] :
            r \in fs \cap {BareRoot}}

NoDataset == [repo |-> None, worktree |-> None, path |-> <<>>]

IdleDs ==
    /\ ds_fs = {}
    /\ ds_spec = [kind |-> "None", path |-> <<>>, obj |-> None]
    /\ ds = NoDataset
    /\ got = [repo |-> NotAccessed, worktree |-> NotAccessed, path |-> <<>>]
    /\ is_format = "none"
    /\ tc = [called |-> FALSE, value |-> <<>>, result |-> <<>>]

\* dataset.py 43-53: Dataset(spec), on any file system
InitDs ==
    /\ ds_fs \in SUBSET {CheckoutRoot, BareRoot}
    /\ ds_spec \in DatasetSpecs(ds_fs)
    /\ ds = NoDataset
    /\ got = [repo |-> NotAccessed, worktree |-> NotAccessed, path |-> <<>>]
    /\ is_format \in {"none", "absolute", "relative"}
    /\ tc = [called |-> FALSE, value |-> <<>>, result |-> <<>>]

\* the fields Dataset.worktree leaves behind
AfterWorktree(d) ==
    [d EXCEPT !.worktree = DatasetWorktree(ds_fs, ds_spec, d)]
\* the fields Dataset.repo leaves behind (it evaluates self.worktree)
AfterRepo(d) ==
    [AfterWorktree(d) EXCEPT !.repo = DatasetRepo(ds_fs, ds_spec, d)]
\* the fields Dataset.path leaves behind
AfterPath(d) ==
    IF d.path # <<>> \/ ds_spec.kind = "None"
    THEN [d EXCEPT !.path = DatasetPath(ds_fs, ds_spec, d)]
    ELSE IF DatasetWorktree(ds_fs, ds_spec, d) # None
    THEN [AfterWorktree(d) EXCEPT !.path = DatasetPath(ds_fs, ds_spec, d)]
    ELSE [AfterRepo(d) EXCEPT !.path = DatasetPath(ds_fs, ds_spec, d)]

\* ds.worktree
GetWorktree ==
    /\ got.worktree = NotAccessed
    /\ ds' = AfterWorktree(ds)
    /\ got' = [got EXCEPT !.worktree = DatasetWorktree(ds_fs, ds_spec, ds)]
    /\ UNCHANGED <<ds_fs, ds_spec, is_format, tc>>
    /\ UNCHANGED notDsVars

\* ds.repo
GetRepo ==
    /\ got.repo = NotAccessed
    /\ ds' = AfterRepo(ds)
    /\ got' = [got EXCEPT !.repo = DatasetRepo(ds_fs, ds_spec, ds)]
    /\ UNCHANGED <<ds_fs, ds_spec, is_format, tc>>
    /\ UNCHANGED notDsVars

\* ds.path
GetPath ==
    /\ got.path = <<>>
    /\ ds' = AfterPath(ds)
    /\ got' = [got EXCEPT !.path = DatasetPath(ds_fs, ds_spec, ds)]
    /\ UNCHANGED <<ds_fs, ds_spec, is_format, tc>>
    /\ UNCHANGED notDsVars

\* EnsurePath(is_format=...).for_dataset(ds)(value)
CallTailored(value) ==
    /\ ~tc.called
    /\ ds' = IF value # <<>> /\ ds_spec.kind # "Worktree" THEN ds
             ELSE AfterPath(ds)
    /\ tc' = [called |-> TRUE, value |-> value,
              result |-> EnsureDatasetPath(is_format, value, ds_spec,
                            DatasetPath(ds_fs, ds_spec, ds))]
    /\ UNCHANGED <<ds_fs, ds_spec, is_format, got>>
    /\ UNCHANGED notDsVars

NextDs ==
    \/ GetWorktree
    \/ GetRepo
    \/ GetPath
    \/ \E value \in ValuePaths \cup {<<>>} : CallTailored(value)

(***************************************************************************)
(* anything2bool                                                           *)
(***************************************************************************)

\* the number of calls followed
MaxCalls == 2

\* Python values: strings carry text, numbers carry num
StrVal(t) == [type |-> "str", text |-> t, num |-> 0]
NumVal(ty, n) == [type |-> ty, text |-> "", num |-> n]
Texts == {"", "off", "OFF", "Off", "no", "false", "0", "on", "ON", "yes",
          "true", "True", "1", "2", "00", "broken"}
AnyValues ==
    {StrVal(t) : t \in Texts}
    \cup {NumVal("bool", n) : n \in {0, 1}}
    \cup {NumVal("int", n) : n \in {-1, 0, 1, 2}}
    \cup {NumVal("float", n) : n \in {0, 1, 2}}
    \cup {NumVal("NoneType", 0)}
    \cup {NumVal("list", n) : n \in {0, 1}}

\* str.lower()
LowerText(t) ==
    CASE t \in {"OFF", "Off"} -> "off"
      [] t = "ON" -> "on"
      [] t = "True" -> "true"
      [] OTHER -> t
\* defaults.py 48-49: val.lower() where the value has that method
Lower(val) ==
    IF val.type = "str" THEN StrVal(LowerText(val.text)) ELSE val

\* str.isdigit() and int(text)
IsDigit(val) == val.type = "str" /\ val.text \in {"0", "1", "2", "00"}
IntOf(text) == CASE text = "1" -> 1 [] text = "2" -> 2 [] OTHER -> 0

\* variant: no value counts as false
TruthyAlways(val) == TRUE

\* bool(val): empty strings and lists, zero, False and None are false
Truthy(val) ==
    CASE val.type = "str" -> val.text # ""
      [] val.type = "NoneType" -> FALSE
      [] OTHER -> val.num # 0

\* `val in {...}` for a set of strings
InStrings(val, S) == val.type = "str" /\ val.text \in S
\* `val == True`: True, 1 and 1.0 are equal and hash alike
EqualsTrue(val) == val.type \in {"bool", "int", "float"} /\ val.num = 1

\* defaults.py 45-60; "ValueError" stands for the exception raised
anything2bool(value) ==
    IF value = StrVal("") THEN "False"
    ELSE LET val == Lower(value)
         IN IF InStrings(val, {"off", "no", "false", "0"}) \/ ~Truthy(val)
            THEN "False"
            ELSE IF \/ InStrings(val, {"on", "yes", "true"})
                    \/ EqualsTrue(val)
                    \/ (IsDigit(val) /\ IntOf(val.text) # 0)
                    \/ (val.type \in {"int", "bool"} /\ val.num # 0)
            THEN "True"
            ELSE "ValueError"

IdleBool ==
    /\ b2calls = <<>>

InitBool ==
    /\ b2calls = <<>>

\* anything2bool(val)
CallAnything2Bool(val) ==
    /\ Len(b2calls) < MaxCalls
    /\ b2calls' = Append(b2calls, [val |-> val, res |-> anything2bool(val)])
    /\ UNCHANGED notBVars

NextBool ==
    \/ \E val \in AnyValues : CallAnything2Bool(val)

(***************************************************************************)
(* Constraint.__and__ / __or__, AllOf and AnyOf                            *)
(***************************************************************************)

\* the number of constraints built with & and |
MaxBuilt == 2

\* plain constraints, and the two connectives with their constraint tuples
Atom(n) == [cls |-> "Constraint", name |-> n, constraints |-> <<>>]
Atoms == {Atom(n) : n \in {"A", "B", "C"}}
\* constraint.py 104-105: _MultiConstraint.__init__(*constraints)
Multi(cls, cs) == [cls |-> cls, name |-> "", constraints |-> cs]

\* constraint.py 40-44, 135, 183: AllOf overrides __and__ and AnyOf __or__;
\* any other left operand runs Constraint.__and__ / Constraint.__or__
Merges(self, other, cls) == self.cls = cls

\* constraint.py 184-189 (and 136-141): the tuple of the new connective
Extended(self, other, cls) ==
    IF other.cls = cls THEN self.constraints \o other.constraints
    ELSE Append(self.constraints, other)

\* self & other (cls = "AllOf") and self | other (cls = "AnyOf")
Combine(self, other, cls) ==
    IF Merges(self, other, cls)
    THEN Multi(cls, Extended(self, other, cls))
    ELSE Multi(cls, <<self, other>>)

IdleAlg ==
    /\ built = <<>>

InitAlg ==
    /\ built = <<>>

\* the constraints at hand: the plain ones and those built so far
AtHand == Atoms \cup {built[i].value : i \in 1..Len(built)}

\* left & right
And(left, right) ==
    /\ Len(built) < MaxBuilt
    /\ built' = Append(built, [cls |-> "AllOf", left |-> left,
                               right |-> right,
                               value |-> Combine(left, right, "AllOf")])
    /\ UNCHANGED notAVars

\* left | right
Or(left, right) ==
    /\ Len(built) < MaxBuilt
    /\ built' = Append(built, [cls |-> "AnyOf", left |-> left,
                               right |-> right,
                               value |-> Combine(left, right, "AnyOf")])
    /\ UNCHANGED notAVars

NextAlg ==
    \/ \E left \in AtHand : \E right \in AtHand : And(left, right)
    \/ \E left \in AtHand : \E right \in AtHand : Or(left, right)

(***************************************************************************)
(* iter_gitdiff: recursion into submodules                                 *)
(***************************************************************************)

\* the number of iter_gitdiff calls made on one repository state
MaxDiffCalls == 2

\* a hierarchy of present repositories: the records Git may report for the
\* repository at `base` (a path from the root repository), in Git's order
Contents(base) ==
    IF base = <<>>
    THEN << [path |-> <<"a">>, gittype |-> "file"],
            [path |-> <<"dir", "f">>, gittype |-> "file"],
            [path |-> <<"dir", "g">>, gittype |-> "file"],
            [path |-> <<"subds">>, gittype |-> "submodule"],
            [path |-> <<"z">>, gittype |-> "file"] >>
    ELSE IF base = <<"subds">>
    THEN << [path |-> <<"file">>, gittype |-> "file"],
            [path |-> <<"sub2">>, gittype |-> "submodule"] >>
    ELSE << [path |-> <<"file">>, gittype |-> "file"] >>

Repos == {<<>>, <<"subds">>, <<"subds", "sub2">>}
AllPaths ==
    UNION {{base \o Contents(base)[i].path :
               i \in 1..Len(Contents(base))} : base \in Repos}
SubmodulePaths == Repos \ {<<>>}

IsUnder(path, base) ==
    /\ Len(path) > Len(base)
    /\ SubSeq(path, 1, Len(base)) = base

\* a change inside a submodule changes the submodule's record in its parent
ChangeSets ==
    {c \in SUBSET AllPaths :
        \A s \in SubmodulePaths :
            (\E p \in c : IsUnder(p, s)) => s \in c}

\* pathspecs, by the paths of the hierarchy they match; GitPathSpecs(None)
\* is not given
NoPathspecs == [given |-> FALSE, paths |-> {}]
PathspecsOf(paths) == [given |-> TRUE, paths |-> paths]
Pathspecs ==
    { NoPathspecs,
      PathspecsOf(AllPaths),
      PathspecsOf({p \in AllPaths : p[Len(p)] = "file"}),
      PathspecsOf({p \in AllPaths : p[1] = "subds"}),
      PathspecsOf({<<"a">>, <<"subds", "sub2">>}) }

RecursionModes ==
    {"none", "repository", "submodules", "submodules-and-yield"}
Treeishes == {"None", "HEAD"}

RECURSIVE ConcatAll(_)
ConcatAll(seqs) ==
    IF seqs = <<>> THEN <<>> ELSE Head(seqs) \o ConcatAll(Tail(seqs))

\* recursion.startswith('none')
StartsWithNone(recursion) == recursion = "none"

\* gitdiff.py 237-245, 288-341: the raw records Git prints for the
\* repository at base, limited to the pathspecs.  diff-index always lists
\* the content of subdirectories; diff-tree without -r (line 331) lists a
\* changed subdirectory as one record of its own.
GitDiffRecords(base, chg, pspecs, recursion, to_treeish) ==
    LET listed ==
            SelectSeq(Contents(base),
                      LAMBDA e : /\ (base \o e.path) \in chg
                                 /\ \/ ~pspecs.given
                                    \/ (base \o e.path) \in pspecs.paths)
        first_of_dir ==
            {i \in 1..Len(listed) :
                \A k \in 1..(i - 1) : listed[k].path[1] # listed[i].path[1]}
        toplevel ==
            [i \in 1..Len(listed) |->
                IF Len(listed[i].path) = 1 THEN <<listed[i]>>
                ELSE IF i \in first_of_dir
                THEN << [path |-> <<listed[i].path[1]>>,
                         gittype |-> "directory"] >>
                ELSE <<>>]
    IN IF to_treeish # "None" /\ StartsWithNone(recursion)
       THEN ConcatAll(toplevel) ELSE listed

\* gitdiff.py 253: _single_dir
SingleDir(recursion, to_treeish) ==
    to_treeish = "None" /\ StartsWithNone(recursion)

\* gitdiff.py 570-607: _mangle_item_for_singledir; the directory of a
\* changed tracked file is known in from_treeish
mangle_item_for_singledir(dname) ==
    [relpath |-> <<dname>>, gittype |-> "directory",
     status |-> "modification", gitsha |-> "None",
     modification_types |-> <<>>]

\* gitdiff.py 378-418: _get_diff_item; comparing to the worktree, Git
\* reports no object id for a changed item
get_diff_item(e, to_treeish) ==
    [relpath |-> e.path, gittype |-> e.gittype,
     status |-> "modification",
     gitsha |-> IF to_treeish = "None" THEN "None" ELSE "sha",
     modification_types |-> <<>>]

\* recursion.startswith('submodules')
StartsWithSubmodules(recursion) ==
    recursion \in {"submodules", "submodules-and-yield"}

\* variant: the submodule item is yielded in every submodule recursion
YieldsItemAlways(recursion) == TRUE

\* gitdiff.py 497-498
YieldsItem(recursion) == recursion = "submodules-and-yield"

\* gitdiff.py 559-567: replace(i, relpath=subm.relpath / i.relpath)
Rebase(subm_relpath, subitems) ==
    [i \in 1..Len(subitems) |->
        [subitems[i] EXCEPT !.relpath = subm_relpath \o @]]

RECURSIVE iter_gitdiff(_, _, _, _, _)
RECURSIVE inner_iter_gitdiff(_, _, _, _, _)
RECURSIVE yield_diff_item(_, _, _, _, _, _, _)
RECURSIVE yield_from_submodule(_, _, _, _, _, _)

\* gitdiff.py 512-567: _yield_from_submodule; the pathspecs are recoded
\* for the submodule (for_subdir), which keeps what they match
yield_from_submodule(base, subm, chg, recursion, to_treeish, pspecs) ==
    Rebase(subm.relpath,
           iter_gitdiff(base \o subm.relpath, chg, recursion,
                        IF to_treeish = "None" THEN "None" ELSE subm.gitsha,
                        pspecs))

\* gitdiff.py 421-509: _yield_diff_item; reported_dirs holds the
\* directories reported for earlier records
yield_diff_item(base, e, chg, recursion, to_treeish, pspecs,
                reported_dirs) ==
    LET item == get_diff_item(e, to_treeish)
        annotated ==
            IF item.status = "modification" /\ item.gitsha = "None"
            THEN [item EXCEPT
                    !.modification_types = Append(@, "new_commits")]
            ELSE item
    IN IF SingleDir(recursion, to_treeish)
       THEN IF Len(item.relpath) < 2 THEN <<item>>
            ELSE IF item.relpath[1] \in reported_dirs THEN <<>>
            ELSE <<mangle_item_for_singledir(item.relpath[1])>>
       ELSE IF item.gittype # "submodule" THEN <<item>>
       ELSE IF ~StartsWithSubmodules(recursion) THEN <<annotated>>
       ELSE (IF YieldsItem(recursion) THEN <<annotated>> ELSE <<>>)
            \o yield_from_submodule(base, annotated, chg, recursion,
                                    to_treeish, pspecs)

\* gitdiff.py 232-286: _iter_gitdiff
inner_iter_gitdiff(base, chg, recursion, to_treeish, pspecs) ==
    LET recs == GitDiffRecords(base, chg, pspecs, recursion, to_treeish)
    IN ConcatAll([i \in 1..Len(recs) |->
                    yield_diff_item(base, recs[i], chg, recursion,
                                    to_treeish, pspecs,
                                    {recs[k].path[1] :
                                        k \in {n \in 1..(i - 1) :
                                                  Len(recs[n].path) > 1}})])

\* gitdiff.py 152-229: iter_gitdiff with its second pass over the
\* submodules the pathspecs did not match
iter_gitdiff(base, chg, recursion, to_treeish, pspecs) ==
    LET first == inner_iter_gitdiff(base, chg, recursion, to_treeish, pspecs)
        processed_submodules ==
            IF StartsWithSubmodules(recursion)
            THEN {first[i].relpath :
                     i \in {k \in 1..Len(first) :
                               first[k].gittype = "submodule"}}
            ELSE {}
        second == inner_iter_gitdiff(base, chg,
                                     "repository-ignore-submodule-dirty",
                                     to_treeish, NoPathspecs)
    IN IF ~(StartsWithSubmodules(recursion) /\ pspecs.given) THEN first
       ELSE first \o
            ConcatAll([i \in 1..Len(second) |->
                IF \/ second[i].gittype # "submodule"
                   \/ second[i].relpath \in processed_submodules
                THEN <<>>
                ELSE yield_from_submodule(base, second[i], chg, recursion,
                                          to_treeish, pspecs)])

IdleSubm ==
    /\ changed = {}
    /\ pathspecs = NoPathspecs
    /\ diffcalls = <<>>

InitSubm ==
    /\ changed \in ChangeSets
    /\ pathspecs \in Pathspecs
    /\ diffcalls = <<>>

\* list(iter_gitdiff(path, from_treeish, to_treeish, recursion=...,
\* pathspecs=...)) on the root repository
CallIterGitdiff(recursion, to_treeish) ==
    /\ Len(diffcalls) < MaxDiffCalls
    /\ diffcalls' = Append(diffcalls,
           [recursion |-> recursion, to_treeish |-> to_treeish,
            items |-> iter_gitdiff(<<>>, changed, recursion, to_treeish,
                                   pathspecs)])
    /\ UNCHANGED <<changed, pathspecs>>
    /\ UNCHANGED notSVars

NextSubm ==
    \/ \E recursion \in RecursionModes : \E to_treeish \in Treeishes :
          CallIterGitdiff(recursion, to_treeish)

(***************************************************************************)
(* iter_gitstatus: a repository with one present submodule                 *)
(***************************************************************************)

\* the number of iter_gitstatus calls made on one repository state
MaxStatusCalls == 2

\* What Git and the file system say about the submodule "sm" of the
\* repository.  Commits: c0 is recorded in the parent's HEAD, c1 is staged
\* in the parent's index, c2 is neither.
\*   diff         status of the submodule in `git diff-index
\*                --ignore-submodules=dirty <head>` ("none": not listed)
\*   gitsha       the new object id of that record ("None": the checked
\*                out commit is not the one in the index)
\*   head_commit  the commit of the submodule's HEAD (in adjusted mode: of
\*                the corresponding branch)
\*   adjusted     the submodule is on a git-annex adjusted branch
\*   modified     tracked content of the submodule's worktree is modified
\*   untracked    the submodule's worktree has untracked content
SubmoduleStates ==
    {s \in [diff : {"none", "addition", "modification"},
            gitsha : {"None", "c0", "c1"},
            head_commit : {"c0", "c1", "c2"},
            adjusted : BOOLEAN, modified : BOOLEAN, untracked : BOOLEAN] :
        /\ s.diff = "none" <=> s.gitsha = "c0"
        /\ ~s.adjusted =>
              /\ s.gitsha = "c0" => s.head_commit = "c0"
              /\ s.gitsha = "c1" => s.head_commit = "c1"
              /\ s.gitsha = "None" => s.head_commit = "c2"}

StatusRecursionModes == {"repository", "submodules", "monolithic"}
UntrackedModes == {"all", "None"}

EndsWithIgnoreDirty(recursion) ==
    recursion = "repository-ignore-submodules-dirty"
EndsWithIgnore(recursion) == recursion = "repository-ignore-submodules"

\* gitdiff.py 378-418 and 478-489: the submodule's record from the diff
\* against the worktree, as _yield_diff_item passes it on
SubmoduleDiffItem(s) ==
    LET status == s.diff
        prev_gitsha == IF status = "addition" THEN "None" ELSE "c0"
        from_spec ==
            IF status = "addition" /\ s.gitsha = "None"
            THEN <<"modified_content">> ELSE <<>>
    IN [relpath |-> <<"sm">>, gittype |-> "submodule", status |-> status,
        gitsha |-> s.gitsha, prev_gitsha |-> prev_gitsha,
        modification_types |->
            IF status = "modification" /\ s.gitsha = "None"
            THEN Append(from_spec, "new_commits") ELSE from_spec]

\* gitstatus.py 315-326: the record of a submodule the diff did not list
CleanSubmoduleItem(s) ==
    [relpath |-> <<"sm">>, gittype |-> "submodule", status |-> "None",
     gitsha |-> s.gitsha, prev_gitsha |-> s.gitsha,
     modification_types |-> <<>>]

FileItem(name, status) ==
    [relpath |-> <<name>>, gittype |-> "file", status |-> status,
     gitsha |-> "None", prev_gitsha |-> "None", modification_types |-> <<>>]

\* gitstatus.py 547-590: _eval_submodule_adjusted
eval_submodule_adjusted(s, item, head_commit, recursion) ==
    (IF item.prev_gitsha # head_commit THEN <<"new_commits">> ELSE <<>>)
    \o (IF EndsWithIgnoreDirty(recursion) THEN <<>>
        ELSE (IF s.modified THEN <<"modified_content">> ELSE <<>>)
             \o (IF s.untracked THEN <<"untracked_content">> ELSE <<>>))

\* gitstatus.py 515-544: _eval_submodule_normal
eval_submodule_normal(s, item, head_commit, recursion) ==
    IF \/ ~EndsWithIgnoreDirty(recursion) /\ item.status = "None"
       \/ "new_commits" \in Range(item.modification_types)
    THEN eval_submodule_adjusted(s, item, head_commit, recursion)
    ELSE (IF item.gitsha # head_commit THEN <<"new_commits">> ELSE <<>>)
         \o (IF ~EndsWithIgnoreDirty(recursion) /\ s.untracked
             THEN <<"untracked_content">> ELSE <<>>)

\* gitstatus.py 474-512: _eval_submodule, for a submodule that is present
eval_submodule(s, item, recursion) ==
    IF EndsWithIgnore(recursion) THEN item
    ELSE LET modification_types ==
                 IF s.adjusted
                 THEN eval_submodule_adjusted(s, item, s.head_commit,
                                              recursion)
                 ELSE eval_submodule_normal(s, item, s.head_commit,
                                            recursion)
         IN IF modification_types = <<>> THEN item
            ELSE [item EXCEPT
                    !.status = "modification",
                    !.modification_types = @ \o modification_types]

\* the submodule's record after _eval_submodule (gitstatus.py 298-329)
EvaluatedSubmodule(s, recursion) ==
    eval_submodule(s,
                   IF s.diff = "none" THEN CleanSubmoduleItem(s)
                   ELSE SubmoduleDiffItem(s),
                   recursion)

\* gitstatus.py 274-346: _yield_repo_items on the parent, which besides the
\* submodule has one modified and one untracked file
yield_repo_items(s, untracked, recursion) ==
    <<FileItem("file_m", "modification"), EvaluatedSubmodule(s, recursion)>>
    \o (IF untracked = "None" THEN <<>>
        ELSE <<FileItem("file_u", "other")>>)

\* gitstatus.py 274-346: _yield_repo_items inside the submodule, compared
\* with the commit `head`: what was committed since, modified tracked
\* content, untracked content
yield_submodule_repo_items(s, head, untracked) ==
    (IF head \notin {"HEAD", s.head_commit}
     THEN <<FileItem("file_c", "addition")>> ELSE <<>>)
    \o (IF s.modified THEN <<FileItem("file_m", "modification")>> ELSE <<>>)
    \o (IF untracked # "None" /\ s.untracked
        THEN <<FileItem("file_u", "other")>> ELSE <<>>)

\* gitstatus.py 364-380
YieldsSubmoduleRecord(recursion, item) ==
    \/ recursion = "submodules"
    \/ /\ recursion = "monolithic"
       /\ \/ item.modification_types = <<>>
          \/ "new_commits" \in Range(item.modification_types)

\* gitstatus.py 389-401: the reference commit of the nested evaluation
SubmoduleHead(recursion, item) ==
    IF recursion = "submodules" THEN "HEAD"
    ELSE IF item.gitsha # "None" THEN item.gitsha ELSE item.prev_gitsha

RECURSIVE HierarchyItems(_, _, _, _)
\* gitstatus.py 349-413: the loop of _yield_hierarchy_items over the
\* parent's items; the nested call with no reference commit at all fails in
\* _build_cmd (gitdiff.py 322-324) and ends the iteration
HierarchyItems(s, todo, untracked, recursion) ==
    IF todo = <<>> THEN [items |-> <<>>, raised |-> "none"]
    ELSE LET item == Head(todo)
             rest == HierarchyItems(s, Tail(todo), untracked, recursion)
         IN IF item.status = "None" \/ item.gittype # "submodule"
            THEN [rest EXCEPT !.items = <<item>> \o @]
            ELSE LET own == IF YieldsSubmoduleRecord(recursion, item)
                            THEN <<item>> ELSE <<>>
                     sm_head == SubmoduleHead(recursion, item)
                 IN IF sm_head = "None"
                    THEN [items |-> own, raised |-> "ValueError"]
                    ELSE [rest EXCEPT !.items =
                            own
                            \o [i \in 1..Len(yield_submodule_repo_items(
                                              s, sm_head, untracked)) |->
                                  [yield_submodule_repo_items(
                                       s, sm_head, untracked)[i]
                                   EXCEPT !.relpath = item.relpath \o @]]
                            \o @]

yield_hierarchy_items(s, untracked, recursion) ==
    HierarchyItems(s, yield_repo_items(s, untracked, recursion), untracked,
                   recursion)

\* gitstatus.py 42-133: iter_gitstatus, with the final filter on
\* item.status
iter_gitstatus(s, untracked, recursion) ==
    LET gen == IF recursion = "repository"
               THEN [items |-> yield_repo_items(s, untracked, recursion),
                     raised |-> "none"]
               ELSE yield_hierarchy_items(s, untracked, recursion)
    IN [gen EXCEPT
          !.items = SelectSeq(@, LAMBDA item : item.status # "None")]

IdleStatus ==
    /\ submodule = [diff |-> "none", gitsha |-> "c0", head_commit |-> "c0",
                    adjusted |-> FALSE, modified |-> FALSE,
                    untracked |-> FALSE]
    /\ statuscalls = <<>>

InitStatus ==
    /\ submodule \in SubmoduleStates
    /\ statuscalls = <<>>

\* list(iter_gitstatus(path, untracked=..., recursion=...))
CallIterGitstatus(untracked, recursion) ==
    /\ Len(statuscalls) < MaxStatusCalls
    /\ statuscalls' = Append(statuscalls,
           [recursion |-> recursion, untracked |-> untracked,
            result |-> iter_gitstatus(submodule, untracked, recursion)])
    /\ UNCHANGED submodule
    /\ UNCHANGED notStVars

NextStatus ==
    \/ \E untracked \in UntrackedModes :
          \E recursion \in StatusRecursionModes :
              CallIterGitstatus(untracked, recursion)

(***************************************************************************)
(* _iter_gitworktree: items from the records of git ls-files                *)
(***************************************************************************)

\* largest number of records in one listing
MaxLsRecords == 4

\* the paths git ls-files may list, in its order
LsPaths == << <<"a">>, <<"d", "x">>, <<"d", "y">>, <<"e", "x">>, <<"z">> >>

\* listings: records in path order, several records for one path follow
\* each other (stages of an unmerged path); each record has its own object id
Listings ==
    UNION {{l \in [1..n -> 1..Len(LsPaths)] :
               \A i \in 1..(n - 1) : l[i] <= l[i + 1]} : n \in 0..MaxLsRecords}

WorktreeRecursionModes == {"repository", "none"}

\* no pending item / the end marker chained after the listing (line 251)
NoWorktreeItem == [relpath |-> <<>>, gittype |-> "None", gitsha |-> 0]

\* gitworktree.py 343-369: _lsfiles_line2item for the n-th record
lsfiles_line2item(listing, n) ==
    [relpath |-> LsPaths[listing[n]], gittype |-> "file", gitsha |-> n]

\* gitworktree.py 275-280
DirectoryItem(dir_path) ==
    [relpath |-> <<dir_path>>, gittype |-> "directory", gitsha |-> 0]

\* variant: no record is taken as an addendum of the pending item
IsAddendumNever(pending, item) == FALSE

\* gitworktree.py 259: the record is a further report on the pending path
IsAddendum(pending, item) ==
    ~(item = NoWorktreeItem
      \/ (pending # NoWorktreeItem /\ item.relpath # pending.relpath))

\* variant: a containing directory is never taken as reported
AlreadyReportedNever(dir_path, reported) == FALSE

\* gitworktree.py 272
AlreadyReported(dir_path, reported) == dir_path \in reported

\* gitworktree.py 267: the pending item lies inside a subdirectory
WithheldForDir(pending, recursion) ==
    recursion = "none" /\ Len(pending.relpath) > 1

IdleWt ==
    /\ wt_listing = <<>>
    /\ wt_recursion = "repository"
    /\ wt_pos = 0
    /\ wt_pending = NoWorktreeItem
    /\ wt_reported = {}
    /\ wt_yielded = <<>>
    /\ wt_returned = FALSE

InitWt ==
    /\ wt_listing \in Listings
    /\ wt_recursion \in WorktreeRecursionModes
    /\ wt_pos = 0
    /\ wt_pending = NoWorktreeItem
    /\ wt_reported = {}
    /\ wt_yielded = <<>>
    /\ wt_returned = FALSE

\* the record of the current loop iteration: a line of the listing or the
\* end marker (lines 251, 256)
CurrentItem ==
    IF wt_pos + 1 > Len(wt_listing) THEN NoWorktreeItem
    ELSE lsfiles_line2item(wt_listing, wt_pos + 1)

InLoop == ~wt_returned /\ wt_pos <= Len(wt_listing)

\* lines 252-253: the end marker with nothing pending
ReturnEmpty ==
    /\ InLoop
    /\ wt_pending = NoWorktreeItem
    /\ CurrentItem = NoWorktreeItem
    /\ wt_returned' = TRUE
    /\ UNCHANGED <<wt_listing, wt_recursion, wt_pos, wt_pending,
                   wt_reported, wt_yielded>>
    /\ UNCHANGED notWtVars

\* lines 259, 291: the first record, or a further record of the pending path
HoldItem ==
    /\ InLoop
    /\ ~(wt_pending = NoWorktreeItem /\ CurrentItem = NoWorktreeItem)
    /\ IsAddendum(wt_pending, CurrentItem)
    /\ wt_pending' = CurrentItem
    /\ wt_pos' = wt_pos + 1
    /\ UNCHANGED <<wt_listing, wt_recursion, wt_reported, wt_yielded,
                   wt_returned>>
    /\ UNCHANGED notWtVars

\* lines 259-288, 291: the pending item is complete and is yielded
YieldPending ==
    /\ InLoop
    /\ ~(wt_pending = NoWorktreeItem /\ CurrentItem = NoWorktreeItem)
    /\ ~IsAddendum(wt_pending, CurrentItem)
    /\ ~WithheldForDir(wt_pending, wt_recursion)
    /\ wt_yielded' = Append(wt_yielded, wt_pending)
    /\ wt_pending' = CurrentItem
    /\ wt_pos' = wt_pos + 1
    /\ UNCHANGED <<wt_listing, wt_recursion, wt_reported, wt_returned>>
    /\ UNCHANGED notWtVars

\* lines 267-284: the pending item is inside a subdirectory, which is
\* yielded in its place
YieldDirectory ==
    /\ InLoop
    /\ ~(wt_pending = NoWorktreeItem /\ CurrentItem = NoWorktreeItem)
    /\ ~IsAddendum(wt_pending, CurrentItem)
    /\ WithheldForDir(wt_pending, wt_recursion)
    /\ ~AlreadyReported(wt_pending.relpath[1], wt_reported)
    /\ wt_yielded' = Append(wt_yielded, DirectoryItem(wt_pending.relpath[1]))
    /\ wt_reported' = wt_reported \cup {wt_pending.relpath[1]}
    /\ wt_pending' = CurrentItem
    /\ wt_pos' = wt_pos + 1
    /\ UNCHANGED <<wt_listing, wt_recursion, wt_returned>>
    /\ UNCHANGED notWtVars

\* lines 267-274: the containing directory was yielded before
SkipReportedDirectory ==
    /\ InLoop
    /\ ~(wt_pending = NoWorktreeItem /\ CurrentItem = NoWorktreeItem)
    /\ ~IsAddendum(wt_pending, CurrentItem)
    /\ WithheldForDir(wt_pending, wt_recursion)
    /\ AlreadyReported(wt_pending.relpath[1], wt_reported)
    /\ wt_pending' = CurrentItem
    /\ wt_pos' = wt_pos + 1
    /\ UNCHANGED <<wt_listing, wt_recursion, wt_reported, wt_yielded,
                   wt_returned>>
    /\ UNCHANGED notWtVars

NextWt ==
    \/ ReturnEmpty
    \/ HoldItem
    \/ YieldPending
    \/ YieldDirectory
    \/ SkipReportedDirectory

(***************************************************************************)
(* call_git_oneline                                                        *)
(***************************************************************************)

\* largest number of characters Git writes to stdout
MaxStdout == 4

\* the captured standard output: characters and line ends
Stdouts == UNION {[1..n -> {"x", "nl"}] : n \in 0..MaxStdout}

RECURSIVE SplitLines(_)
\* str.splitlines(): the lines without their line ends; a final line end
\* does not start another line
SplitLines(text) ==
    IF text = <<>> THEN <<>>
    ELSE IF \A i \in 1..Len(text) : text[i] # "nl" THEN <<text>>
    ELSE LET nl == CHOOSE i \in 1..Len(text) :
                      /\ text[i] = "nl"
                      /\ \A k \in 1..(i - 1) : text[k] # "nl"
         IN <<SubSeq(text, 1, nl - 1)>>
            \o SplitLines(SubSeq(text, nl + 1, Len(text)))

\* git.py 163-172: call_git_lines; check=True raises CommandError for a
\* non-zero exit status
call_git_lines(returncode, stdout) ==
    IF returncode # 0 THEN [raised |-> "CommandError", value |-> <<>>]
    ELSE [raised |-> "none", value |-> SplitLines(stdout)]

\* git.py 201
TooManyLines(outlines) == Len(outlines) > 1

\* git.py 200-204: call_git_oneline; lines[0] of an empty list raises
\* IndexError
call_git_oneline(returncode, stdout) ==
    LET outlines == call_git_lines(returncode, stdout)
    IN IF outlines.raised # "none"
       THEN [raised |-> outlines.raised, value |-> <<>>]
       ELSE IF TooManyLines(outlines.value)
       THEN [raised |-> "AssertionError", value |-> <<>>]
       ELSE IF Len(outlines.value) = 0
       THEN [raised |-> "IndexError", value |-> <<>>]
       ELSE [raised |-> "none", value |-> outlines.value[1]]

NotCalled == [raised |-> "not called", value |-> <<>>]

IdleOneline ==
    /\ ol_stdout = <<>>
    /\ ol_returncode = 0
    /\ ol_result = NotCalled

InitOneline ==
    /\ ol_stdout \in Stdouts
    /\ ol_returncode \in {0, 1}
    /\ ol_result = NotCalled

CallGitOneline ==
    /\ ol_result = NotCalled
    /\ ol_result' = call_git_oneline(ol_returncode, ol_stdout)
    /\ UNCHANGED <<ol_stdout, ol_returncode>>
    /\ UNCHANGED notOlVars

NextOneline ==
    \/ CallGitOneline

(***************************************************************************)
(* GitConfig._load                                                         *)
(***************************************************************************)

\* largest number of chunks git config --list writes before it exits
MaxDump == 3

DumpKeys == {"k1", "k2"}
DumpValues == {"v1", "v2"}
\* the null-delimited chunks of git config --show-origin --list -z: an
\* origin, or a key with its value
DumpChunks ==
    {[kind |-> "origin", key |-> "file:cfg", value |-> "-"]}
    \cup {[kind |-> "keyvalue", key |-> k, value |-> v] :
             k \in DumpKeys, v \in DumpValues}
Dumps == UNION {[1..n -> DumpChunks] : n \in 0..MaxDump}

\* how the git config process ends: exit status 0, the failure for a scope
\* without a configuration file, any other failure
LoadFailures == {"none", "absent", "other"}

\* git.py 284-331: _proc_dump_line on one chunk; the values of a key are
\* collected in the order they are listed
proc_dump_line(chunk, acc) ==
    IF chunk.kind = "origin"
    THEN [acc EXCEPT !.fileset = @ \cup {chunk.key}]
    ELSE [acc EXCEPT !.dct[chunk.key] = Append(@, chunk.value)]

RECURSIVE ProcDump(_, _)
\* git.py 81-91: every chunk read before the process ends is processed
ProcDump(dump, acc) ==
    IF dump = <<>> THEN acc
    ELSE ProcDump(Tail(dump), proc_dump_line(Head(dump), acc))

EmptyDump == [fileset |-> {}, dct |-> [k \in DumpKeys |-> <<>>]]

\* git.py 92-96: except CommandError: pass
SwallowsCommandError(failure) == TRUE

\* git.py 75-114: _load; iter_git_subproc raises CommandError for a
\* non-zero exit status when its context is left
load(dump, failure) ==
    IF failure # "none" /\ ~SwallowsCommandError(failure)
    THEN [raised |-> "CommandError", sources |-> {},
          cache |-> EmptyDump.dct]
    ELSE LET acc == ProcDump(dump, EmptyDump)
         IN [raised |-> "none", sources |-> acc.fileset, cache |-> acc.dct]

NotLoaded == [raised |-> "not called", sources |-> {},
              cache |-> EmptyDump.dct]

IdleLoad ==
    /\ ld_dump = <<>>
    /\ ld_failure = "none"
    /\ ld_result = NotLoaded

\* an absent scope has nothing to list
InitLoad ==
    /\ ld_dump \in Dumps
    /\ ld_failure \in LoadFailures
    /\ ld_failure = "absent" => ld_dump = <<>>
    /\ ld_result = NotLoaded

\* source.load() on a source after _reinit()
Load ==
    /\ ld_result = NotLoaded
    /\ ld_result' = load(ld_dump, ld_failure)
    /\ UNCHANGED <<ld_dump, ld_failure>>
    /\ UNCHANGED notLdVars

NextLoad ==
    \/ Load

(***************************************************************************)
(* datalad_command: get_allargs_as_kwargs                                  *)
(***************************************************************************)

\* largest number of parameters of a command body
MaxBodyParams == 2
\* largest number of positional arguments of a call
MaxArgs == 3

\* the names of a body's parameters, in declaration order
BodyNames == <<"a", "b", "c", "d">>
\* default_result_handler.py 33-42: the handler's extra parameter
ExtraKwargSpecs ==
    <<[name |-> "on_failure", kind |-> "keyword-only", hasdefault |-> TRUE]>>
ExtraNames == {ExtraKwargSpecs[i].name : i \in 1..Len(ExtraKwargSpecs)}

\* signature(wrapped).parameters: positional parameters come first, those
\* without a default before those with one; keyword-only ones follow
Signatures ==
    {sig \in UNION {[1..n -> [name : {BodyNames[i] : i \in 1..MaxBodyParams},
                              kind : {"positional", "keyword-only"},
                              hasdefault : BOOLEAN]] :
                       n \in 1..MaxBodyParams} :
        /\ \A i \in 1..Len(sig) : sig[i].name = BodyNames[i]
        /\ \A i, j \in 1..Len(sig) :
              i < j =>
                  /\ sig[i].kind = "keyword-only"
                        => sig[j].kind = "keyword-only"
                  /\ (sig[i].kind = "positional" /\ sig[j].kind = "positional"
                      /\ sig[i].hasdefault) => sig[j].hasdefault}

\* values: the i-th positional argument of the call, the value a keyword
\* of the call gives, a parameter's declared default, Parameter.empty
Positional(i) == [from |-> "positional", id |-> BodyNames[i]]
Keyword(name) == [from |-> "keyword", id |-> name]
Default(name) == [from |-> "default", id |-> name]
Empty == [from |-> "empty", id |-> "empty"]

\* param.default
ParamDefault(param) ==
    IF param.hasdefault THEN Default(param.name) ELSE Empty

\* the keyword arguments of a call: a value for each name given
KwargsOf(names) == [name \in names |-> Keyword(name)]

\* kwargs.get(pname, fallback)
Get(kwargs, pname, fallback) ==
    IF pname \in DOMAIN kwargs THEN kwargs[pname] ELSE fallback

\* decorator.py 143-172: update_with_extra_kwargs with an empty
\* extra_kwarg_defaults; every extra parameter gets an entry
update_with_extra_kwargs(call_kwargs) ==
    [name \in DOMAIN call_kwargs \cup ExtraNames |->
        IF name \in ExtraNames
        THEN LET spec == CHOOSE s \in {ExtraKwargSpecs[i] :
                                          i \in 1..Len(ExtraKwargSpecs)} :
                            s.name = name
             IN Get(call_kwargs, name, ParamDefault(spec))
        ELSE call_kwargs[name]]

RECURSIVE BindParams(_, _, _, _, _)
\* decorator.py 195-201: the loop over the joint parameters; nargs counts
\* the positional arguments popped so far
BindParams(params, i, nargs, kwargs, popped) ==
    IF i > Len(params) THEN <<>>
    ELSE IF popped < nargs
    THEN <<Positional(popped + 1)>>
         \o BindParams(params, i + 1, nargs, kwargs, popped + 1)
    ELSE <<Get(kwargs, params[i].name, ParamDefault(params[i]))>>
         \o BindParams(params, i + 1, nargs, kwargs, popped)

\* decorator.py 175-216: get_allargs_as_kwargs
get_allargs_as_kwargs(sig, nargs, kwargs) ==
    LET params == sig \o ExtraKwargSpecs
        vals == BindParams(params, 1, nargs, kwargs, 0)
        names == {params[i].name : i \in 1..Len(params)}
        allkwargs == [name \in names |->
                         vals[CHOOSE i \in 1..Len(params) :
                                 params[i].name = name]]
        defaulted == {params[i].name : i \in
                          {k \in 1..Len(params) :
                              vals[k] = ParamDefault(params[k])}}
        missing_args == {name \in names : allkwargs[name] = Empty}
    IN IF missing_args # {}
       THEN [raised |-> "TypeError", allkwargs |-> <<>>, at_default |-> {}]
       ELSE [raised |-> "none", allkwargs |-> allkwargs,
             at_default |-> defaulted]

NotBound == [raised |-> "not called", allkwargs |-> <<>>, at_default |-> {}]

IdleBind ==
    /\ bd_sig = <<>>
    /\ bd_nargs = 0
    /\ bd_kwargs = {}
    /\ bd_result = NotBound

InitBind ==
    /\ bd_sig \in Signatures
    /\ bd_nargs \in 0..MaxArgs
    /\ bd_kwargs \in SUBSET ({BodyNames[i] : i \in 1..MaxBodyParams}
                             \cup ExtraNames)
    /\ bd_kwargs \subseteq {bd_sig[i].name : i \in 1..Len(bd_sig)}
                           \cup ExtraNames
    /\ bd_result = NotBound

\* decorator.py 70-88: command_wrapper(*args, **kwargs) up to preproc
CommandWrapper ==
    /\ bd_result = NotBound
    /\ bd_result' = get_allargs_as_kwargs(
                        bd_sig, bd_nargs,
                        update_with_extra_kwargs(KwargsOf(bd_kwargs)))
    /\ UNCHANGED <<bd_sig, bd_nargs, bd_kwargs>>
    /\ UNCHANGED notBdVars

NextBind ==
    \/ CommandWrapper

(***************************************************************************)
(* call_annex_json_lines                                                   *)
(***************************************************************************)

\* largest number of calls with the same git_args list
MaxAnnexCalls == 2
\* longest git_args list of a caller
MaxGitArgs == 2

GitArgTokens == {"-C", "p", "--bare"}
\* the argument git_args: no list, or the caller's list object
NoList == <<"None">>
GitArgLists == UNION {[1..n -> GitArgTokens] : n \in 0..MaxGitArgs}
AnnexArgLists == UNION {[1..n -> {"info", "--fast"}] : n \in 1..2}

JsonOptions == <<"--json", "--json-error-messages">>

\* annex.py 40: cmd = git_args or []; a non-empty list is truthy, and cmd
\* is then the caller's list object itself
Aliases(git_args) == git_args # NoList /\ git_args # <<>>

\* annex.py 40-43: the list cmd after append and extend
BuildCmd(git_args, annex_args) ==
    (IF git_args = NoList THEN <<>> ELSE git_args)
    \o <<"annex">> \o annex_args \o JsonOptions

\* git.py 215-218: iter_git_subproc runs git with the arguments
RunGit(cmd) == <<"git">> \o cmd

IdleAnnex ==
    /\ ax_given = NoList
    /\ ax_git_args = NoList
    /\ ax_annex_args = <<"info">>
    /\ ax_commands = <<>>

InitAnnex ==
    /\ ax_given \in GitArgLists \cup {NoList}
    /\ ax_git_args = ax_given
    /\ ax_annex_args \in AnnexArgLists
    /\ ax_commands = <<>>

\* list(call_annex_json_lines(annex_args, git_args=git_args)) with the
\* caller's list object as it is now
CallAnnexJsonLines ==
    /\ Len(ax_commands) < MaxAnnexCalls
    /\ LET cmd == BuildCmd(ax_git_args, ax_annex_args)
       IN /\ ax_commands' = Append(ax_commands, RunGit(cmd))
          /\ ax_git_args' = IF Aliases(ax_git_args) THEN cmd
                            ELSE ax_git_args
    /\ UNCHANGED <<ax_given, ax_annex_args>>
    /\ UNCHANGED notAxVars

NextAnnex ==
    \/ CallAnnexJsonLines

(***************************************************************************)
(* Specifications                                                          *)
(***************************************************************************)

InitSpecEnv ==
    InitEnv /\ IdleHandler /\ IdleDiff /\ IdleFly /\ IdleMgr /\ IdleGitCfg
    /\ IdleProc
    /\ IdleDs
    /\ IdleBool
    /\ IdleAlg
    /\ IdleSubm
    /\ IdleStatus
    /\ IdleWt
    /\ IdleOneline
    /\ IdleLoad
    /\ IdleBind
    /\ IdleAnnex
SpecEnv == InitSpecEnv /\ [][NextEnv]_vars

InitSpecHandler ==
    InitHandler /\ IdleEnv /\ IdleDiff /\ IdleFly /\ IdleMgr /\ IdleGitCfg
    /\ IdleProc
    /\ IdleDs
    /\ IdleBool
    /\ IdleAlg
    /\ IdleSubm
    /\ IdleStatus
    /\ IdleWt
    /\ IdleOneline
    /\ IdleLoad
    /\ IdleBind
    /\ IdleAnnex
SpecHandler == InitSpecHandler /\ [][NextHandler]_vars

InitSpecDiff ==
    InitDiff /\ IdleEnv /\ IdleHandler /\ IdleFly /\ IdleMgr /\ IdleGitCfg
    /\ IdleProc
    /\ IdleDs
    /\ IdleBool
    /\ IdleAlg
    /\ IdleSubm
    /\ IdleStatus
    /\ IdleWt
    /\ IdleOneline
    /\ IdleLoad
    /\ IdleBind
    /\ IdleAnnex
SpecDiff == InitSpecDiff /\ [][NextDiff]_vars

InitSpecFly ==
    InitFly /\ IdleEnv /\ IdleHandler /\ IdleDiff /\ IdleMgr /\ IdleGitCfg
    /\ IdleProc
    /\ IdleDs
    /\ IdleBool
    /\ IdleAlg
    /\ IdleSubm
    /\ IdleStatus
    /\ IdleWt
    /\ IdleOneline
    /\ IdleLoad
    /\ IdleBind
    /\ IdleAnnex
SpecFly == InitSpecFly /\ [][NextFly]_vars

InitSpecMgr ==
    InitMgr /\ IdleEnv /\ IdleHandler /\ IdleDiff /\ IdleFly /\ IdleGitCfg
    /\ IdleProc
    /\ IdleDs
    /\ IdleBool
    /\ IdleAlg
    /\ IdleSubm
    /\ IdleStatus
    /\ IdleWt
    /\ IdleOneline
    /\ IdleLoad
    /\ IdleBind
    /\ IdleAnnex
SpecMgr == InitSpecMgr /\ [][NextMgr]_vars

InitSpecGitCfg ==
    InitGitCfg /\ IdleEnv /\ IdleHandler /\ IdleDiff /\ IdleFly /\ IdleMgr
    /\ IdleProc
    /\ IdleDs
    /\ IdleBool
    /\ IdleAlg
    /\ IdleSubm
    /\ IdleStatus
    /\ IdleWt
    /\ IdleOneline
    /\ IdleLoad
    /\ IdleBind
    /\ IdleAnnex
SpecGitCfg == InitSpecGitCfg /\ [][NextGitCfg]_vars

InitSpecProc ==
    InitProc
    /\ IdleHandler
    /\ IdleDiff
    /\ IdleFly
    /\ IdleMgr
    /\ IdleGitCfg
    /\ IdleEnv
    /\ IdleDs
    /\ IdleBool
    /\ IdleAlg
    /\ IdleSubm
    /\ IdleStatus
    /\ IdleWt
    /\ IdleOneline
    /\ IdleLoad
    /\ IdleBind
    /\ IdleAnnex
SpecProc == InitSpecProc /\ [][NextProc]_vars

InitSpecDs ==
    InitDs
    /\ IdleHandler
    /\ IdleDiff
    /\ IdleFly
    /\ IdleMgr
    /\ IdleGitCfg
    /\ IdleProc
    /\ IdleEnv
    /\ IdleBool
    /\ IdleAlg
    /\ IdleSubm
    /\ IdleStatus
    /\ IdleWt
    /\ IdleOneline
    /\ IdleLoad
    /\ IdleBind
    /\ IdleAnnex
SpecDs == InitSpecDs /\ [][NextDs]_vars

InitSpecBool ==
    InitBool
    /\ IdleHandler
    /\ IdleDiff
    /\ IdleFly
    /\ IdleMgr
    /\ IdleGitCfg
    /\ IdleProc
    /\ IdleDs
    /\ IdleEnv
    /\ IdleAlg
    /\ IdleSubm
    /\ IdleStatus
    /\ IdleWt
    /\ IdleOneline
    /\ IdleLoad
    /\ IdleBind
    /\ IdleAnnex
SpecBool == InitSpecBool /\ [][NextBool]_vars

InitSpecAlg ==
    InitAlg
    /\ IdleHandler
    /\ IdleDiff
    /\ IdleFly
    /\ IdleMgr
    /\ IdleGitCfg
    /\ IdleProc
    /\ IdleDs
    /\ IdleBool
    /\ IdleEnv
    /\ IdleSubm
    /\ IdleStatus
    /\ IdleWt
    /\ IdleOneline
    /\ IdleLoad
    /\ IdleBind
    /\ IdleAnnex
SpecAlg == InitSpecAlg /\ [][NextAlg]_vars

InitSpecSubm ==
    InitSubm
    /\ IdleHandler
    /\ IdleDiff
    /\ IdleFly
    /\ IdleMgr
    /\ IdleGitCfg
    /\ IdleProc
    /\ IdleDs
    /\ IdleBool
    /\ IdleAlg
    /\ IdleEnv
    /\ IdleStatus
    /\ IdleWt
    /\ IdleOneline
    /\ IdleLoad
    /\ IdleBind
    /\ IdleAnnex
SpecSubm == InitSpecSubm /\ [][NextSubm]_vars

InitSpecGitStatus ==
    InitStatus
    /\ IdleHandler
    /\ IdleDiff
    /\ IdleFly
    /\ IdleMgr
    /\ IdleGitCfg
    /\ IdleProc
    /\ IdleDs
    /\ IdleBool
    /\ IdleAlg
    /\ IdleSubm
    /\ IdleEnv
    /\ IdleWt
    /\ IdleOneline
    /\ IdleLoad
    /\ IdleBind
    /\ IdleAnnex
SpecGitStatus == InitSpecGitStatus /\ [][NextStatus]_vars

InitSpecWt ==
    InitWt
    /\ IdleHandler
    /\ IdleDiff
    /\ IdleFly
    /\ IdleMgr
    /\ IdleGitCfg
    /\ IdleProc
    /\ IdleDs
    /\ IdleBool
    /\ IdleAlg
    /\ IdleSubm
    /\ IdleStatus
    /\ IdleEnv
    /\ IdleOneline
    /\ IdleLoad
    /\ IdleBind
    /\ IdleAnnex
SpecWt == InitSpecWt /\ [][NextWt]_vars

InitSpecOneline ==
    InitOneline
    /\ IdleHandler
    /\ IdleDiff
    /\ IdleFly
    /\ IdleMgr
    /\ IdleGitCfg
    /\ IdleProc
    /\ IdleDs
    /\ IdleBool
    /\ IdleAlg
    /\ IdleSubm
    /\ IdleStatus
    /\ IdleWt
    /\ IdleEnv
    /\ IdleLoad
    /\ IdleBind
    /\ IdleAnnex
SpecOneline == InitSpecOneline /\ [][NextOneline]_vars

InitSpecLoad ==
    InitLoad
    /\ IdleHandler
    /\ IdleDiff
    /\ IdleFly
    /\ IdleMgr
    /\ IdleGitCfg
    /\ IdleProc
    /\ IdleDs
    /\ IdleBool
    /\ IdleAlg
    /\ IdleSubm
    /\ IdleStatus
    /\ IdleWt
    /\ IdleOneline
    /\ IdleEnv
    /\ IdleBind
    /\ IdleAnnex
SpecLoad == InitSpecLoad /\ [][NextLoad]_vars

InitSpecBind ==
    InitBind
    /\ IdleHandler
    /\ IdleDiff
    /\ IdleFly
    /\ IdleMgr
    /\ IdleGitCfg
    /\ IdleProc
    /\ IdleDs
    /\ IdleBool
    /\ IdleAlg
    /\ IdleSubm
    /\ IdleStatus
    /\ IdleWt
    /\ IdleOneline
    /\ IdleLoad
    /\ IdleEnv
    /\ IdleAnnex
SpecBind == InitSpecBind /\ [][NextBind]_vars

InitSpecAnnex ==
    InitAnnex
    /\ IdleHandler
    /\ IdleDiff
    /\ IdleFly
    /\ IdleMgr
    /\ IdleGitCfg
    /\ IdleProc
    /\ IdleDs
    /\ IdleBool
    /\ IdleAlg
    /\ IdleSubm
    /\ IdleStatus
    /\ IdleWt
    /\ IdleOneline
    /\ IdleLoad
    /\ IdleBind
    /\ IdleEnv
SpecAnnex == InitSpecAnnex /\ [][NextAnnex]_vars

(***************************************************************************)
(* Claims                                                                  *)
(***************************************************************************)

\* ---- GitEnvironment.overrides

\* C1: on exit from the overrides scope (normal exit or exception in the
\* body) every overridden key has exactly the values it had before entry,
\* and every key that was absent before entry is absent again.
C1_RestoredOnExit ==
    envpc = "exited" =>
        \A i \in 1..Len(overrides) :
            env[overrides[i].key] = envBefore[overrides[i].key]

\* ---- StandardResultHandler

\* what a reader of the result stream calls a handled result and a failure
HasAction(res) == res.kind = "result"
Failing(res) == res.status \in {"impossible", "error"}
\* positions 1..n of produced that satisfy Test, in producer order
PositionsUpTo(n, Test(_)) == SelectSeq([i \in 1..n |-> i], Test)
HandledUpTo(n) == PositionsUpTo(n, LAMBDA i : HasAction(produced[i]))
FailedUpTo(n) ==
    PositionsUpTo(n, LAMBDA i : HasAction(produced[i]) /\ Failing(produced[i]))
\* position of the first handled failing result, 0 if there is none
FirstFailing ==
    LET f == FailedUpTo(Len(produced)) IN IF f = <<>> THEN 0 ELSE f[1]
\* the statuses of the produced results, in order
ProducedStatuses == [i \in 1..Len(produced) |-> produced[i].status]
AllHaveAction == \A i \in 1..Len(produced) : HasAction(produced[i])

\* C2 (as stated): with on_failure='stop' the failing result that stops the
\* handler is still yielded to the consumer before the generator ends.
C2_StopYieldsTrigger ==
    (on_failure = "stop" /\ hpc = "raised") =>
        error_results[Len(error_results)] \in Range(yielded)

\* C2 (amended): with on_failure='stop' the failing result that stops the
\* handler is logged, rendered and recorded but not yielded: the consumer
\* receives exactly the handled results produced before it, in order (for
\* ok, notneeded, impossible, error it receives ok, notneeded).
C2_StopWithholdsTrigger ==
    (on_failure = "stop" /\ hpc = "raised") =>
        /\ FirstFailing # 0
        /\ FirstFailing \notin Range(yielded)
        /\ FirstFailing \in Range(logged) \cap Range(rendered)
        /\ yielded = HandledUpTo(FirstFailing - 1)

C2_Witness ==
    /\ on_failure = "stop"
    /\ hpc = "raised"
    /\ AllHaveAction
    /\ ProducedStatuses = <<"ok", "notneeded", "impossible", "error">>
    /\ yielded = <<1, 2>>

\* C3: with on_failure='continue' every handled result (non-empty, with an
\* 'action') is yielded in producer order, failing ones included; ResultError
\* is raised only after the producer is exhausted, with `failed` equal to the
\* failing results in production order; without a failing result no error
\* is raised.
C3_ContinueYieldsAllThenRaises ==
    on_failure = "continue" =>
        /\ yielded = HandledUpTo(pos)
        /\ hpc # "loop" => pos = Len(produced)
        /\ hpc = "raised" =>
              /\ error_results = FailedUpTo(Len(produced))
              /\ error_results # <<>>
        /\ hpc = "returned" => FailedUpTo(Len(produced)) = <<>>

C3_Witness ==
    /\ on_failure = "continue"
    /\ hpc = "raised"
    /\ AllHaveAction
    /\ ProducedStatuses = <<"ok", "notneeded", "impossible", "error">>
    /\ yielded = <<1, 2, 3, 4>>
    /\ error_results = <<3, 4>>

\* C4: with on_failure='stop' the handler stops pulling from the producer at
\* the first failing result: nothing produced after it is yielded, logged or
\* rendered, and the ResultError raised carries exactly that one result.
C4_StopPullsNoFurther ==
    on_failure = "stop" =>
        /\ FirstFailing # 0 =>
              /\ pos <= FirstFailing
              /\ \A i \in Range(yielded) \cup Range(logged) \cup Range(rendered) :
                    i <= FirstFailing
              /\ pos = FirstFailing => hpc = "raised"
        /\ hpc = "raised" => error_results = <<FirstFailing>>
        /\ hpc = "returned" => FirstFailing = 0

C4_Witness ==
    /\ on_failure = "stop"
    /\ hpc = "raised"
    /\ pos < Len(produced)
    /\ HasAction(produced[pos + 1])
    /\ Failing(produced[pos + 1])

\* ---- _iter_gitdiff

\* the item Git's n-th record describes
RecordItem(r) ==
    [status |-> records[r],
     relpath |-> IF records[r] \in {"R", "C"} THEN PathLine(r, 2)
                 ELSE PathLine(r, 1),
     prev_relpath |-> IF records[r] = "A" THEN EndMarker ELSE PathLine(r, 1)]

\* C5: iter_gitdiff yields exactly one item for every record of Git's raw
\* output, in Git's order; a rename or copy record consumes exactly its own
\* two path fields, and each record after it is reported as its own item.
C5_OneItemPerRecord ==
    dpos = Len(lines) => items = [r \in 1..Len(records) |-> RecordItem(r)]

\* ---- PathBasedFlyweight

\* the thread is between the insertion into the cache and the return, or
\* has returned
HasInstance(t) == tpc[t] \in {"release", "returned"}
InCriticalSection(t) == tpc[t] \in {"lookup", "construct", "release"}
HoldsRepository(inst) == Toplevel(gitAt, instances[inst].path) # ""

C7_OneWorktreePerCheckout ==
    \A t, u \in Threads :
        ( /\ ~fsChanged
          /\ tpc[t] = "returned" /\ tpc[u] = "returned"
          /\ treq[t].cls = "Worktree" /\ treq[u].cls = "Worktree"
          /\ instances[tinst[t]].path = instances[tinst[u]].path
          /\ HoldsRepository(tinst[t]) )
        => tinst[t] = tinst[u]

\* C8: threads that concurrently request the same class for the same path
\* all obtain the same instance: lookup, validity check, construction and
\* insertion run under one lock, one thread at a time.
C8_OneInstancePerPath ==
    /\ Cardinality({t \in Threads : InCriticalSection(t)}) <= 1
    /\ \A t, u \in Threads :
          ( /\ ~fsChanged
            /\ tpc[t] = "returned" /\ tpc[u] = "returned"
            /\ treq[t] = treq[u]
            /\ HoldsRepository(tinst[t]) )
          => tinst[t] = tinst[u]

C8_Witness ==
    \E t, u \in Threads :
        /\ t # u
        /\ ~fsChanged
        /\ tpc[t] = "returned" /\ tpc[u] = "returned"
        /\ treq[t] = treq[u]
        /\ waited[u]
        /\ tprev[t] = NoInstance
        /\ tinst[t] = tinst[u]
        /\ HoldsRepository(tinst[t])

\* ---- C9 ---------------------------------------------------------------

\* the configurations that differ from c at most in the sources outside prot
UnprotectedVariants(c, prot) ==
    {[sk \in SourceKeys |-> IF sk \in prot THEN c[sk] ELSE u[sk]] :
        u \in {f \in [SourceKeys \ prot -> DefaultsItems \cup {NoItem}] :
                  \A sk \in SourceKeys \ prot :
                      f[sk] \in ItemsOf(sk) \cup {NoItem}}}

\* positions in SourceOrder of the protected sources that have the key
ProtectedHolders == {i \in 1..Len(SourceOrder) :
    /\ SourceOrder[i] \in protected_source_keys
    /\ cfg[SourceOrder[i]] # NoItem}
\* ... and of those holding a value other than the unset sentinel
ProtectedSetHolders == {i \in ProtectedHolders :
    cfg[SourceOrder[i]].value # UnsetValue}
Highest(S) == CHOOSE i \in S : \A j \in S : i <= j

\* whatever the sources outside the protected set hold, the result of a
\* protected query is the same
UnprotectedNeverInfluence ==
    qresult # NoItem =>
        \A c2 \in UnprotectedVariants(cfg, protected_source_keys) :
            GetFromProtectedSources(c2, protected_source_keys, qdefault)
                = qresult

C10_CacheHoldsOnlyWritten ==
    /\ \A key \in NormalizedKeys : \A i \in 1..Len(cache[key]) :
          <<key, Str(cache[key][i])>> \in written
    /\ gpc = "raised" => cache = cacheAtCall

\* an add has failed on a key that holds a value from an earlier set: the
\* cache still holds that value alone, while the failed value is in neither
C10_Witness ==
    /\ gpc = "raised"
    /\ gop.kind = "add"
    /\ gop.value = [type |-> "int", text |-> "5"]
    /\ cache[gop.key] = <<[type |-> "str", text |-> "one"]>>
    /\ backing[gop.key] = <<"one">>

\* ---- C11 --------------------------------------------------------------

\* the entries of the exceptions dict recorded for parameter p itself
ParamEntries(p) ==
    {e \in exceptions : e.ctx = ParamContext(p) /\ e.err = p}

\* C11: with on_error = 'raise-at-end' a ConstraintError of one parameter
\* does not end the processing: when the call leaves the first loop, raises
\* ParamErrors or returns, every parameter was processed; the ParamErrors
\* holds exactly one entry for each parameter whose constraint raised (and
\* none for the others), and the call does not return when one raised
C11_RaiseAtEndCollectsAll ==
    proc_on_error = "raise-at-end" =>
        /\ ppc \in {"paramsets", "ParamErrors", "returned"} =>
              attempted = ParamNames
        /\ ppc = "ParamErrors" =>
              \A p \in ParamNames :
                  Cardinality(ParamEntries(p)) =
                      IF p \in raisedFor THEN 1 ELSE 0
        /\ ppc = "returned" => raisedFor = {}

\* both p1 and p2 violated their constraints, the first of them did not stop
\* the loop, and the ParamErrors raised in the end holds the two entries
C11_Witness ==
    /\ proc_on_error = "raise-at-end"
    /\ ppc = "ParamErrors"
    /\ raisedFor = {"p1", "p2"}
    /\ attempted = ParamNames
    /\ Cardinality(exceptions) = 2

\* ---- C12 --------------------------------------------------------------

\* a parameter named by a declared cross-parameter constraint failed
NamedParamFailed ==
    ExpectedForProcParamSets(paramset_constraints) \cap raisedFor # {}

\* C12: once a parameter named by a cross-parameter constraint has failed
\* its own validation, no cross-parameter constraint is ever called, and the
\* call, when the first loop is through, raises ParamErrors with exactly the
\* per-parameter errors collected
C12_NoJointProcessingAfterFailure ==
    NamedParamFailed =>
        /\ invoked = <<>>
        /\ ppc \notin {"params", "AttributeError"} =>
              /\ ppc = "ParamErrors"
              /\ exceptions =
                    {[ctx |-> ParamContext(p), err |-> p] : p \in raisedFor}

\* p2 alone failed, two cross-parameter constraints are declared, one of them
\* on p1 and p2: all parameters were processed, none of the two was called
C12_Witness ==
    /\ proc_on_error = "raise-at-end"
    /\ paramset_constraints = <<{"dataset"}, {"p1", "p2"}>>
    /\ raisedFor = {"p2"}
    /\ attempted = ParamNames
    /\ ppc = "ParamErrors"
    /\ invoked = <<>>

\* ---- C13 --------------------------------------------------------------

\* C13: when the call returns, for every cross-parameter constraint that
\* returned a mapping, a name the mapping adds is in the final mapping, and a
\* name the constraint was given but did not return is neither in the final
\* mapping nor among the names a later constraint was given
C13_ReturnDeterminesNames ==
    ppc = "returned" =>
        \A i \in 1..Len(invoked) :
            ~invoked[i].raised =>
                /\ \A n \in invoked[i].returned \ invoked[i].given :
                      processed[n] # NoEntry
                /\ \A n \in invoked[i].given \ invoked[i].returned :
                      /\ processed[n] = NoEntry
                      /\ \A j \in (i + 1)..Len(invoked) :
                            n \notin invoked[j].given

\* ---- C14 --------------------------------------------------------------

\* C14: a parameter listed in tailor_for_dataset whose constraint is a plain
\* Constraint is validated with that constraint itself, the dataset
\* parameter being a Dataset or not
C14_PlainConstraintKept ==
    \A p \in DOMAIN TailorForDataset :
        (p \in attempted /\ p \notin at_default /\ p1_constraint = "plain")
            => /\ ppc # "AttributeError"
               /\ used[p] = "plain"

\* ---- C17 --------------------------------------------------------------

\* the spec is a string or path, and neither a checkout nor a repository
\* is at that location
NoRepositoryAtSpec ==
    /\ ds_spec.kind \in {"str", "Path"}
    /\ ShowToplevel(ds_fs, ds_spec.path) = <<>>
    /\ AbsolutePath(ds_spec.path) \notin ds_fs

\* C17: for a Dataset made from a string or path at which no repository or
\* checkout exists, repo and worktree are None and path is the spec as a
\* path, unchanged
C17_NothingThereNoHandles ==
    NoRepositoryAtSpec =>
        /\ got.repo \in {NotAccessed, None}
        /\ got.worktree \in {NotAccessed, None}
        /\ got.path \in {<<>>, ds_spec.path}

\* ---- C18 --------------------------------------------------------------

NamedFalse(val) ==
    InStrings(Lower(val), {"", "off", "no", "false", "0"})
\* the inputs the rule names as true: on/yes/true/1 in any case, boolean
\* true, a digit string of non-zero value, a non-zero integer
NamedTrue(val) ==
    \/ InStrings(Lower(val), {"on", "yes", "true", "1"})
    \/ (val.type = "bool" /\ val.num = 1)
    \/ (IsDigit(val) /\ IntOf(val.text) # 0)
    \/ (val.type = "int" /\ val.num # 0)
\* values Python treats as false: None, False, zero, an empty container
FalseValue(val) ==
    \/ val.type = "NoneType"
    \/ (val.type \in {"bool", "int", "float", "list"} /\ val.num = 0)

FlatOperand(c, cls) == IF c.cls = cls THEN c.constraints ELSE <<c>>

\* C15: x & y is an AllOf whose constraint list is the flat sequence of
\* what x and y contribute, with no AllOf inside it, on whichever side an
\* AllOf operand stands: (A & B) & C and A & (B & C) both list A, B, C; the
\* same for | and AnyOf
C15_FlatInBothAssociations ==
    \A i \in 1..Len(built) :
        LET b == built[i]
        IN /\ b.value.cls = b.cls
           /\ b.value.constraints =
                 FlatOperand(b.left, b.cls) \o FlatOperand(b.right, b.cls)
           /\ \A k \in 1..Len(b.value.constraints) :
                 b.value.constraints[k].cls # b.cls

\* ---- C20 --------------------------------------------------------------

\* the positions of a call's subitems that lie inside the submodule at path
NestedPositions(subitems, path) ==
    {k \in 1..Len(subitems) : IsUnder(subitems[k].relpath, path)}

OwnRecordYielded(call) ==
    \E k \in 1..Len(call.result.items) :
        call.result.items[k].gittype = "submodule"

\* the changes inside the submodule are among the items of a call
ContentChangesReported(call) ==
    LET nested == {call.result.items[k].relpath :
                      k \in 1..Len(call.result.items)}
    IN /\ submodule.modified => <<"sm", "file_m">> \in nested
       /\ submodule.untracked /\ call.untracked # "None" =>
             <<"sm", "file_u">> \in nested

\* C19: with recursion 'monolithic' the record of a changed submodule is
\* yielded if and only if the submodule is new, or its record has no
\* modification-type qualifier, or it has the new_commits qualifier; a
\* record with only modified_content / untracked_content qualifiers is
\* omitted and the changes inside the submodule are reported
C19_MonolithicOwnRecord ==
    \A c \in 1..Len(statuscalls) :
        LET call == statuscalls[c]
            rec == EvaluatedSubmodule(submodule, call.recursion)
            quals == Range(rec.modification_types)
        IN call.recursion = "monolithic" /\ rec.status # "None" =>
              /\ OwnRecordYielded(call) <=>
                    \/ submodule.diff = "addition"
                    \/ quals = {}
                    \/ "new_commits" \in quals
              /\ quals # {} /\ "new_commits" \notin quals
                    /\ submodule.diff # "addition" =>
                    /\ ~OwnRecordYielded(call)
                    /\ ContentChangesReported(call)

\* ---- C21 --------------------------------------------------------------

\* C21: in a call with pathspecs and a 'submodules' recursion mode no
\* changed item inside a submodule is yielded more than once: the second
\* pass expands only the submodules the main pass did not process
C21_NoNestedItemTwice ==
    \A c \in 1..Len(diffcalls) :
        LET call == diffcalls[c]
        IN pathspecs.given /\ StartsWithSubmodules(call.recursion) =>
              \A i \in 1..Len(call.items) : \A j \in 1..Len(call.items) :
                  /\ Len(call.items[i].relpath) > 1
                  /\ call.items[i].relpath = call.items[j].relpath
                  => i = j

\* ---- C22 --------------------------------------------------------------

\* C22: in every recursion mode, 'none' included, a yielded submodule item
\* with status modification and no new object id has the new_commits
\* qualifier
C22_OutOfSyncHasNewCommits ==
    \A c \in 1..Len(diffcalls) :
        \A k \in 1..Len(diffcalls[c].items) :
            LET item == diffcalls[c].items[k]
            IN /\ item.gittype = "submodule"
               /\ item.status = "modification"
               /\ item.gitsha = "None"
               => "new_commits" \in Range(item.modification_types)

\* ---- C23 --------------------------------------------------------------

\* the listing is consumed: the end marker went through the loop
ListingDone == wt_returned \/ wt_pos > Len(wt_listing)

\* the records that are the last one of their path
LastRecords ==
    {n \in 1..Len(wt_listing) :
        \A k \in (n + 1)..Len(wt_listing) : wt_listing[k] # wt_listing[n]}

RECURSIVE SortedSeq(_)
\* the numbers of a set in ascending order
SortedSeq(S) ==
    IF S = {} THEN <<>>
    ELSE LET m == CHOOSE x \in S : \A y \in S : x <= y
         IN <<m>> \o SortedSeq(S \ {m})

FirstInDirectory ==
    {n \in 1..Len(wt_listing) :
        /\ Len(LsPaths[wt_listing[n]]) > 1
        /\ \A k \in 1..(n - 1) :
              LsPaths[wt_listing[k]][1] # LsPaths[wt_listing[n]][1]}

\* what is due, at its position, for the n-th record in mode 'none'
DueForRecord(n) ==
    IF Len(LsPaths[wt_listing[n]]) > 1
    THEN DirectoryItem(LsPaths[wt_listing[n]][1])
    ELSE lsfiles_line2item(wt_listing, n)

\* C24: with recursion 'none' no yielded item has a path of more than one
\* segment; each subdirectory with listed content is yielded exactly once,
\* as a directory without object id, where its first descendant is seen
C24_NoneYieldsDirectoriesOnce ==
    wt_recursion = "none" =>
        /\ \A k \in 1..Len(wt_yielded) : Len(wt_yielded[k].relpath) = 1
        /\ ListingDone =>
              LET due == {n \in LastRecords : Len(LsPaths[wt_listing[n]]) = 1}
                             \cup FirstInDirectory
              IN wt_yielded = [k \in 1..Cardinality(due) |->
                                  DueForRecord(SortedSeq(due)[k])]

C24_Witness ==
    /\ ListingDone
    /\ wt_recursion = "none"
    /\ \E i \in 1..Len(wt_listing) : LsPaths[wt_listing[i]] = <<"d", "x">>
    /\ \E i \in 1..Len(wt_listing) : LsPaths[wt_listing[i]] = <<"d", "y">>
    /\ \E i \in 1..Len(wt_listing) : LsPaths[wt_listing[i]] = <<"z">>
    /\ \E k \in 1..Len(wt_yielded) : wt_yielded[k] = DirectoryItem("d")

\* ---- C25 --------------------------------------------------------------

\* C25: call_git_oneline fails with AssertionError whenever the output of
\* a successful command is not exactly one line: more than one line, or no
\* line at all
C25_AssertionErrorUnlessOneLine ==
    /\ ol_result # NotCalled
    /\ ol_returncode = 0
    /\ Len(SplitLines(ol_stdout)) # 1
    => ol_result.raised = "AssertionError"

\* ---- C26 --------------------------------------------------------------

\* C26: while loading, only the failure for an absent scope is swallowed
\* and gives an empty source; any other CommandError of the git config
\* call reaches the caller
C26_OnlyAbsentScopeSwallowed ==
    ld_result # NotLoaded =>
        /\ ld_failure = "absent" =>
               /\ ld_result.raised = "none"
               /\ ld_result.cache = EmptyDump.dct
        /\ ld_failure = "other" => ld_result.raised = "CommandError"

\* ---- C27 --------------------------------------------------------------

\* what source.reinit().load(), or a fresh source for the same scope and
\* location, holds: the values git config lists (git.py 108-113)
Reloaded == [key \in NormalizedKeys |->
                [i \in 1..Len(backing[key]) |-> Loaded(backing[key][i])]]

\* the cached items as the texts git config would list for them
CacheTexts == [key \in NormalizedKeys |->
                  [i \in 1..Len(cache[key]) |-> Str(cache[key][i])]]

\* C27: after any sequence of set, add and delete operations a reload, or a
\* fresh source, yields the keys and values the cache held; a deleted key
\* does not reappear
C27_ReloadYieldsCache ==
    gpc # "run" =>
        \A key \in NormalizedKeys :
            /\ Len(Reloaded[key]) = Len(CacheTexts[key])
            /\ \A i \in 1..Len(Reloaded[key]) :
                  Str(Reloaded[key][i]) = CacheTexts[key][i]

\* ---- C28 --------------------------------------------------------------

\* C28: when posting the overrides fails partway, the overrides already
\* posted are rolled back: the environment is as it was before the call
C28_PartialOverridesRolledBack ==
    envpc = "failed" => env = envBefore

\* ---- C29 --------------------------------------------------------------

\* the position of a positional parameter of the body among its parameters
PositionalParams == {i \in 1..Len(bd_sig) : bd_sig[i].kind = "positional"}

\* C29: positional arguments are bound only to the positional parameters of
\* the body, in declaration order, never to a keyword-only parameter or to
\* an extra parameter of the handler; a value given by keyword is never
\* discarded in favour of a positional one
C29_PositionalsBindPositionalParams ==
    bd_result.raised = "none" =>
        /\ \A name \in DOMAIN bd_result.allkwargs :
              bd_result.allkwargs[name].from = "positional" =>
                  \E i \in PositionalParams :
                      /\ bd_sig[i].name = name
                      /\ bd_result.allkwargs[name] = Positional(i)
        /\ \A name \in bd_kwargs :
              bd_result.allkwargs[name] = Keyword(name)

\* ---- C30 --------------------------------------------------------------

\* C30: call_annex_json_lines leaves the list passed as git_args as it
\* was, and every call with that list runs
\* git <git_args> annex <annex_args> --json --json-error-messages
C30_GitArgsUnmodified ==
    /\ ax_git_args = ax_given
    /\ \A i \in 1..Len(ax_commands) :
          ax_commands[i] =
              <<"git">> \o (IF ax_given = NoList THEN <<>> ELSE ax_given)
              \o <<"annex">> \o ax_annex_args \o JsonOptions

====
